---------------------------- MODULE Spec2Model ----------------------------
(***************************************************************************)
(* Echo: the tool orchestration engine of backend/enhanced_mcp_client.py   *)
(* and the tool selector of backend/intelligent_tool_selector.py.          *)
(*                                                                         *)
(* EnhancedMCPClient is modelled as a state machine.  Every coroutine of   *)
(* the client runs on one asyncio event loop, so the code between two      *)
(* awaits is atomic: each action below is one such stretch of one          *)
(* coroutine (from a call or a resumption up to the next suspension).      *)
(* The remote tool servers are the environment: the outcome of every HTTP  *)
(* request is chosen nondeterministically when the response is delivered.  *)
(*                                                                         *)
(* Time is a coarse logical clock (now); cache_ttl is CacheTTL ticks.  The *)
(* back-off sleeps are shorter than the clock's resolution: the requested  *)
(* wait is recorded and the wake-up is not tied to the clock.              *)
(***************************************************************************)
EXTENDS Integers, Sequences, FiniteSets, TLC

VARIABLES
    now,             \* time.time() / datetime.now(), in ticks
    tool_cache,      \* self.tool_cache: (server_url, name) -> ToolInfo
    schema_cache,    \* self.schema_cache: (server_url, name) -> schema
    execution_cache, \* self.execution_cache: cache key -> ExecutionResult
    semaphore,       \* self.semaphore: the number of free permits
    calls,           \* the execute_tool_with_retry coroutines
    batch,           \* the execute_multiple_tools coroutine
    disc,            \* the discover_tools_from_server coroutines, per server
    fetch,           \* the get_tool_schema_cached coroutines, per tool key
    server_health,   \* self.server_health: server_url -> ServerHealth
    last_discovery,  \* self.last_discovery
    up,              \* the environment: whether each server is reachable
    hresult,         \* the value a direct check_server_health call returned
    sweep,           \* the discover_all_tools coroutine
    usage_history,   \* selector.usage_history: tool key -> times of use
    context_memory,  \* selector.context_memory
    select,          \* the select_tools coroutine
    fetched_at,      \* history: whether it is kept (on) and, if so, tool
                     \* key -> the time its cached ToolInfo was obtained
                     \* from its server (at)
    applied,         \* the last application of a function of the client
                     \* that does not touch its state: name, inputs, result
    parked           \* a second discover_all_tools coroutine with its
                     \* discovery tasks, suspended at an await while the
                     \* one in sweep and disc runs

\* the state of discovery sweeps and health checks
sweepVars == <<server_health, last_discovery, up, hresult, sweep>>
\* the state of the tool selector
selVars == <<usage_history, context_memory, select>>
\* the history of the catalog and the applications of the pure functions
auxVars == <<fetched_at, applied, parked>>

vars == <<now, tool_cache, schema_cache, execution_cache, semaphore,
          calls, batch, disc, fetch, sweepVars, selVars, auxVars>>

-----------------------------------------------------------------------------
(* Bounds of the model *)

\* The clock runs from 0 to MaxTime.
MaxTime == 2
\* A call issues at most MaxAttempts remote execute requests in the model.
MaxAttempts == 4
\* The largest max_retries argument a caller passes.
MaxRetriesArg == 3
\* The number of requests of one execute_multiple_tools call is 1..MaxBatch.
MaxBatch == 2
\* A message has at most MaxPieces pieces.
MaxPieces == 2
\* A server lists at most MaxAdvertised tool entries in one response.
MaxAdvertised == 2
\* Where the selector learns, select_tools appends at most MaxSelects entries
\* to context_memory and record_tool_usage is called at most MaxUses times
\* per tool key.
MaxSelects == 1
MaxUses == 1
\* At most MaxFetches calls of get_tool_schema_cached wait for the schema of
\* the same tool at a time.
MaxFetches == 2
\* Where _categorize_tool and _extract_tags are applied by themselves, a
\* description has at most MaxWords pieces.
MaxWords == 3

(* Program constants *)

\* config.mcp.cache_ttl, in ticks of the clock
CacheTTL == 2
\* config.mcp.max_retries
ConfigMaxRetries == 1
\* config.mcp.parallel_limit
ParallelLimit == 2
\* selector.max_history_length
max_history_length == 100
\* the length record_tool_usage cuts a usage log to
usage_history_limit == 50

-----------------------------------------------------------------------------
(* The values of the model *)

\* Optional values: Python's None is <<>>, a value x is <<x>>
None == <<>>
Some(x) == <<x>>

\* config.mcp.servers
Servers == {"s1", "s2"}
\* the tool names a server can advertise
ToolNames == {"calc"}
\* parameter objects: "good" satisfies the tool's schema, "bad" does not
Params == {"good", "bad"}
\* a tool request: (server_url, tool_name, parameters)
Requests == Servers \X ToolNames \X Params
\* the max_retries arguments: omitted (None), or an integer
RetryArgs == {None} \cup {Some(n) : n \in -1 .. MaxRetriesArg}

\* the failures of a remote request: httpx.TimeoutException,
\* httpx.ConnectError, and HTTPStatusError from raise_for_status
TransientErrors == {"timeout", "http_error"}
\* a 2xx execute response: {"result": ...} or {"error": ...}
Bodies == {"result_body", "error_body"}
\* the outcomes of a remote execute request
ExecOutcomes == Bodies \cup TransientErrors

\* the slots of execute_tool_with_retry coroutines: the i-th task of the
\* batch runs in slot i; two callers, A and B, call execute_tool_with_retry
\* directly, each in a slot of its own
BatchSlots == 1 .. MaxBatch
CallerA == MaxBatch + 1
CallerB == MaxBatch + 2
DirectSlots == {CallerA, CallerB}
CallIds == BatchSlots \cup DirectSlots

\* the key of tool_cache: f"{server_url}:{tool_name}"
ToolKey(server_url, tool_name) == <<server_url, tool_name>>
ToolKeys == Servers \X ToolNames


-----------------------------------------------------------------------------
(* Numbers.  The floats of the program are exact rationals <<n, d>> with   *)
(* d > 0, in lowest terms.                                                 *)

RECURSIVE Gcd(_, _)
Gcd(a, b) == IF b = 0 THEN a ELSE Gcd(b, a % b)

Abs(a) == IF a < 0 THEN 0 - a ELSE a

\* the rational n / d
R(n, d) ==
    LET g == Gcd(Abs(n), Abs(d))
        sgn == IF d < 0 THEN 0 - 1 ELSE 1
    IN  <<(sgn * n) \div g, (sgn * d) \div g>>

RZero == <<0, 1>>
ROne == <<1, 1>>
RInt(n) == <<n, 1>>
RAdd(x, y) == R(x[1] * y[2] + y[1] * x[2], x[2] * y[2])
RSub(x, y) == R(x[1] * y[2] - y[1] * x[2], x[2] * y[2])
RMul(x, y) == R(x[1] * y[1], x[2] * y[2])
RDiv(x, y) == R(x[1] * y[2], x[2] * y[1])
RLeq(x, y) == x[1] * y[2] <= y[1] * x[2]
RLt(x, y) == x[1] * y[2] < y[1] * x[2]
RMin(x, y) == IF RLeq(x, y) THEN x ELSE y
RMax(x, y) == IF RLeq(x, y) THEN y ELSE x

-----------------------------------------------------------------------------
(* Text.  A text is the set of its pieces, the substrings between spaces   *)
(* (a piece such as "15 + 25" stands for a phrase with its spaces).  What  *)
(* the program computes of a text is computed of its pieces: the words     *)
(* re.findall(r'\b\w+\b') finds in it, and which of the keywords and       *)
(* phrases the program looks for occur in it (`keyword in text`).          *)

\* the words of a piece, lower case
WordsIn(piece) ==
    CASE piece = "15 + 25" -> {"15", "25"}
      [] piece = "2 + 2 * 3" -> {"2", "3"}
      [] piece = "Calculate" -> {"calculate"}
      [] piece = "config.txt" -> {"config", "txt"}
      [] piece = "total sum answer" -> {"total", "sum", "answer"}
      [] OTHER -> {piece}

\* the keywords and phrases the program looks for that occur in a piece
\* (`keyword in piece.lower()`)
PhrasesIn(piece) ==
    CASE piece = "calculate" -> {"calculate", "calc"}
      [] piece = "Calculate" -> {"calculate", "calc"}
      [] piece = "calculator" -> {"calc"}
      [] piece = "calculations" -> {"calc"}
      [] piece = "calc" -> {"calc"}
      [] piece = "15 + 25" -> {"15 + 25"}
      [] piece = "2 + 2 * 3" -> {"2 + 2 * 3"}
      [] piece = "read" -> {"read"}
      [] piece = "config.txt" -> {"config.txt"}
      [] piece = "mathematical" -> {"math"}
      [] piece = "math" -> {"math"}
      [] piece = "read_file" -> {"read", "file"}
      [] piece = "file" -> {"file"}
      [] piece = "files" -> {"file"}
      [] piece = "contents" -> {"content"}
      [] piece = "file_reader" -> {"file", "read"}
      [] piece = "web_search" -> {"web", "search"}
      [] piece = "system_info" -> {"system", "info"}
      [] piece = "secure_storage" -> {"secure", "storage"}
      [] piece = "realtime_monitor" -> {"realtime", "monitor"}
      [] piece = "async_processor" -> {"async", "process"}
      [] piece = "ai_classifier" -> {"ai"}
      [] piece = "internet" -> {"internet"}
      [] piece = "system" -> {"system"}
      [] piece = "storage" -> {"storage"}
      [] piece = "monitoring" -> {"monitor"}
      [] piece = "data" -> {"data"}
      [] piece = "network" -> {"network"}
      [] piece = "total sum answer" -> {"total", "sum", "answer"}
      [] OTHER -> {}

\* re.findall(r'\b\w+\b', text): the set of the words of a text
Words(text) == UNION {WordsIn(piece) : piece \in text}

\* the keywords and phrases that occur in a text
Phrases(text) == UNION {PhrasesIn(piece) : piece \in text}

\* phrase in text
Occurs(phrase, text) == phrase \in Phrases(text)

\* the entry of a tool in the list a server returns: its description and
\* the names of its parameters
ToolData(name) ==
    CASE name = "calculator" ->
            [description |-> {"perform", "mathematical", "calculations"},
             parameters |-> {"expression"}]
      [] name = "read_file" ->
            [description |-> {"read", "file", "contents"},
             parameters |-> {"file_path"}]
      [] OTHER ->
            [description |-> {"calculate", "math"},
             parameters |-> {"expression"}]

\* a variant that looks for the web keywords first
categorize_toolWebFirst(name, description) ==
    LET AnyOf(keywords) ==
            \E keyword \in keywords :
                Occurs(keyword, {name}) \/ Occurs(keyword, description)
    IN  IF AnyOf({"web", "search", "url", "http", "internet"})
        THEN "web_operations"
        ELSE IF AnyOf({"file", "read", "write", "directory", "folder"})
        THEN "file_operations"
        ELSE IF AnyOf({"system", "process", "cpu", "memory", "disk"})
        THEN "system_operations"
        ELSE IF AnyOf({"calculate", "math", "compute", "number"})
        THEN "computation"
        ELSE "general"

\* _categorize_tool
categorize_tool(name, description) ==
    LET AnyOf(keywords) ==
            \E keyword \in keywords :
                Occurs(keyword, {name}) \/ Occurs(keyword, description)
    IN  IF AnyOf({"file", "read", "write", "directory", "folder"})
        THEN "file_operations"
        ELSE IF AnyOf({"web", "search", "url", "http", "internet"})
        THEN "web_operations"
        ELSE IF AnyOf({"system", "process", "cpu", "memory", "disk"})
        THEN "system_operations"
        ELSE IF AnyOf({"calculate", "math", "compute", "number"})
        THEN "computation"
        ELSE "general"

\* a variant without the rules that add network and data for other words
extract_tagsDirect(name, description) ==
    LET InName(keyword) == Occurs(keyword, {name})
        InDesc(keyword) == Occurs(keyword, description)
        Tag(present, tag) == IF present THEN {tag} ELSE {}
    IN  Tag(InName("async") \/ InDesc("asynchronous"), "async")
        \cup Tag(InName("data") \/ InDesc("data"), "data")
        \cup Tag(InName("async") \/ InDesc("async"), "async")
        \cup Tag(InName("secure") \/ InDesc("secure"), "secure")
        \cup Tag(InName("file") \/ InDesc("file"), "file")
        \cup Tag(InName("realtime") \/ InDesc("real-time"), "realtime")
        \cup Tag(InName("monitor") \/ InDesc("monitor"), "monitor")
        \cup Tag(InName("ai") \/ InDesc("ai"), "ai")
        \cup Tag(InName("network") \/ InDesc("network"), "network")
        \cup Tag(InName("calc") \/ InName("math") \/ InDesc("math")
                     \/ InDesc("calculate"), "math")
        \cup Tag(InName("web") \/ InDesc("web") \/ InName("search")
                     \/ InDesc("search"), "web")

\* _extract_tags: the set of the tags of the list it returns
extract_tags(name, description) ==
    LET InName(keyword) == Occurs(keyword, {name})
        InDesc(keyword) == Occurs(keyword, description)
        Tag(present, tag) == IF present THEN {tag} ELSE {}
        network_triggers == {"network", "monitor", "system", "realtime"}
        data_triggers == {"data", "storage", "system"}
    IN  Tag(InName("async") \/ InDesc("asynchronous"), "async")
        \cup Tag(InName("data") \/ InDesc("data"), "data")
        \cup Tag(InName("async") \/ InDesc("async"), "async")
        \cup Tag(InName("secure") \/ InDesc("secure"), "secure")
        \cup Tag(InName("file") \/ InDesc("file"), "file")
        \cup Tag(InName("realtime") \/ InDesc("real-time"), "realtime")
        \cup Tag(InName("monitor") \/ InDesc("monitor"), "monitor")
        \cup Tag(InName("ai") \/ InDesc("ai"), "ai")
        \cup Tag(InName("network") \/ InDesc("network"), "network")
        \cup Tag(InName("calc") \/ InName("math") \/ InDesc("math")
                     \/ InDesc("calculate"), "math")
        \cup Tag(InName("web") \/ InDesc("web") \/ InName("search")
                     \/ InDesc("search"), "web")
        \cup Tag(\E trigger \in network_triggers :
                     InName(trigger) \/ InDesc(trigger), "network")
        \cup Tag(\E trigger \in data_triggers :
                     InName(trigger) \/ InDesc(trigger), "data")

-----------------------------------------------------------------------------
(* Data *)

\* ToolInfo as discovery creates it from a tool entry: no usage yet
ToolInfo(name, server_url) ==
    [name |-> name, description |-> ToolData(name).description,
     parameters |-> ToolData(name).parameters, server_url |-> server_url,
     category |-> categorize_tool(name, ToolData(name).description),
     tags |-> extract_tags(name, ToolData(name).description),
     last_used |-> None, usage_count |-> 0, avg_response_time |-> RZero]

\* ExecutionResult
ExecutionResult(tool_name, server_url, parameters, result, success, timestamp, error) ==
    [tool_name |-> tool_name, server_url |-> server_url,
     parameters |-> parameters, result |-> result, success |-> success,
     timestamp |-> timestamp, error |-> error]

\* get_cache_key: the md5 digest of "operation:arg:arg:..." is one-to-one on
\* the argument strings of the model
get_cache_key(operation, server_url, tool_name, parameters) ==
    <<operation, server_url, tool_name, parameters>>

\* whether a parameter object satisfies a tool's JSON schema
\* (jsonschema.validate)
Satisfies(parameters, schema) == parameters = "good"

\* the schema a server publishes for a tool
SchemaOf(key) == <<"schema", key>>

\* an execute_tool_with_retry coroutine that has not been called: its
\* arguments and locals, where it stands (pc), the result it returned or the
\* exception it raised (exc), and the number of remote execute requests it
\* has sent (requests)
IdleCall ==
    [pc |-> "idle", owner |-> "none",
     server_url |-> "none", tool_name |-> "none", parameters |-> "none",
     max_retries |-> None, attempt |-> 0, start_time |-> 0,
     last_error |-> None, wait |-> 0, result |-> None, exc |-> "none",
     requests |-> 0]

\* a coroutine called with (server_url, tool_name, parameters, max_retries)
NewCall(owner, req, max_retries) ==
    [IdleCall EXCEPT !.pc = "start", !.owner = owner,
                     !.server_url = req[1], !.tool_name = req[2],
                     !.parameters = req[3], !.max_retries = max_retries]

\* the request of a coroutine
RequestOf(c) == <<c.server_url, c.tool_name, c.parameters>>

\* the coroutine has finished: it returned a result or raised
Finished(c) == c.pc \in {"returned", "raised"}

\* ServerHealth as the constructor creates it at time t: healthy, no error
ServerHealth(url, t) ==
    [class |-> "ServerHealth", url |-> url, is_healthy |-> TRUE,
     last_check |-> t, response_time |-> 0, error_count |-> 0,
     last_error |-> None, capabilities |-> None]

\* the DummyHealth object check_server_health builds for a URL that is not
\* a key of server_health
DummyHealth(url) ==
    [class |-> "DummyHealth", url |-> url, is_healthy |-> TRUE,
     response_time |-> 0, status |-> "ok",
     capabilities |-> Some({"test_tool"})]

\* a URL that is not configured
OtherUrl == "other"
\* the URLs check_server_health is called with
Urls == Servers \cup {OtherUrl}

\* self.last_discovery = 0 is the Unix epoch, which lies more than cache_ttl
\* before the start of the program (time 0 of the model's clock)
EpochTime == 0 - CacheTTL

\* a discover_all_tools coroutine that has not been called: its argument
\* and locals (current_time, the results of the health tasks, healthy_servers,
\* the discovery tasks that have started and their results), where it stands
\* (pc), the branch it returned from (path) and the map it returned (ret)
IdleSweep ==
    [pc |-> "idle", owner |-> "none", force_refresh |-> FALSE,
     current_time |-> 0, checks |-> <<>>, healthy_servers |-> {},
     started |-> {}, results |-> <<>>, path |-> "none", ret |-> <<>>]

\* a select_tools coroutine that has not been called
IdleSelect ==
    [pc |-> "idle", user_message |-> "none", context |-> <<>>,
     max_tools |-> 0, matches |-> <<>>]

Init ==
    /\ now = 0
    /\ tool_cache = None
    /\ schema_cache = None
    /\ execution_cache = None
    /\ semaphore = ParallelLimit
    /\ calls = [i \in CallIds |-> IdleCall]
    /\ batch = [pc |-> "idle", requests |-> None, results |-> None]
    /\ disc = [s \in Servers |-> "idle"]
    /\ fetch = [k \in ToolKeys |-> 0]
    /\ server_health = [s \in Servers |-> ServerHealth(s, 0)]
    /\ last_discovery = EpochTime
    /\ up = [s \in Servers |-> TRUE]
    /\ hresult = None
    /\ sweep = IdleSweep
    /\ usage_history = <<>>
    /\ context_memory = <<>>
    /\ select = IdleSelect
    /\ fetched_at = [on |-> FALSE, at |-> <<>>]
    /\ applied = None
    /\ parked = None

\* the clock advances
Tick ==
    /\ now < MaxTime
    /\ now' = now + 1
    /\ UNCHANGED <<tool_cache, schema_cache, execution_cache, semaphore,
                   calls, batch, disc, fetch,
                   sweepVars, selVars, auxVars>>

-----------------------------------------------------------------------------
(* execute_tool_with_retry *)

\* retries = max_retries if max_retries is not None else config.mcp.max_retries
Retries(max_retries) ==
    IF max_retries = None THEN ConfigMaxRetries ELSE max_retries[1]

\* the cache lookup: the cached result when the key is cached and the entry
\* is younger than cache_ttl, None otherwise
CacheLookup(cache, key, t) ==
    IF key \in DOMAIN cache /\ t - cache[key].timestamp < CacheTTL
    THEN Some(cache[key])
    ELSE None

\* the return statement after the loop.  Its execution_time reads
\* start_time, which is unbound when the loop body never ran
\* (UnboundLocalError); its error text adds 1 to max_retries (TypeError when
\* max_retries is None).
FinalReturn(c, t) ==
    IF c.requests = 0
    THEN [c EXCEPT !.pc = "raised", !.exc = "UnboundLocalError"]
    ELSE IF c.max_retries = None
    THEN [c EXCEPT !.pc = "raised", !.exc = "TypeError"]
    ELSE [c EXCEPT !.pc = "returned",
                   !.result = Some(ExecutionResult(c.tool_name, c.server_url,
                                 c.parameters, None, FALSE, t,
                                 Some(<<"Failed after", c.max_retries[1] + 1,
                                        c.last_error>>)))]

\* the test of the while loop, then the body up to the await of client.post
\* (the request is sent), or the return after the loop.  attempt is assigned
\* once, before the loop, and never again.
LoopHead(c, t) ==
    IF c.attempt <= Retries(c.max_retries)
    THEN [c EXCEPT !.pc = "inflight", !.start_time = t, !.requests = @ + 1]
    ELSE FinalReturn(c, t)

\* a caller calls execute_tool_with_retry(server_url, tool_name, parameters,
\* max_retries): the coroutine is created
ExecCall(i, req, max_retries) ==
    /\ calls[i].pc = "idle"
    /\ calls' = [calls EXCEPT ![i] = NewCall("direct", req, max_retries)]
    /\ UNCHANGED <<now, tool_cache, schema_cache, execution_cache, semaphore,
                   batch, disc, fetch,
                   sweepVars, selVars, auxVars>>

\* the coroutine runs from its start to its first await: the cache lookup,
\* then the first pass of the loop
ExecBegin(i) ==
    LET c == calls[i]
        cache_key == get_cache_key("execute_tool", c.server_url, c.tool_name,
                                   c.parameters)
        hit == CacheLookup(execution_cache, cache_key, now)
    IN  /\ c.pc = "start"
        /\ calls' = [calls EXCEPT ![i] =
                IF hit # None
                THEN [c EXCEPT !.pc = "returned", !.result = hit]
                ELSE LoopHead([c EXCEPT !.attempt = 0], now)]
        /\ UNCHANGED <<now, tool_cache, schema_cache, execution_cache,
                       semaphore, batch, disc, fetch,
                   sweepVars, selVars, auxVars>>

\* a variant that averages the old mean with the new time
UpdateUsageHalving(cache, key, t, execution_time) ==
    IF key \in DOMAIN cache
    THEN [cache EXCEPT
             ![key].usage_count = @ + 1,
             ![key].last_used = Some(t),
             ![key].avg_response_time =
                 RDiv(RAdd(@, RInt(execution_time)), RInt(2))]
    ELSE cache

\* the usage statistics of a successful execution that took execution_time:
\* usage_count, last_used and the running mean avg_response_time of the
\* tool's catalog entry, when it has one
UpdateUsage(cache, key, t, execution_time) ==
    IF key \in DOMAIN cache
    THEN [cache EXCEPT
             ![key].usage_count = @ + 1,
             ![key].last_used = Some(t),
             ![key].avg_response_time =
                 RDiv(RAdd(RMul(@, RInt(cache[key].usage_count)),
                           RInt(execution_time)),
                      RInt(cache[key].usage_count + 1))]
    ELSE cache

\* a variant of the handler that gives up at the first failure and returns
\* the failure result
OnFailureGivesUp(c, e, t) ==
    [c EXCEPT !.pc = "returned", !.last_error = Some(e),
              !.result = Some(ExecutionResult(c.tool_name, c.server_url,
                                 c.parameters, None, FALSE, t,
                                 Some(<<"Failed after", 1, Some(e)>>)))]

\* the handler of `except Exception as e` for a failed request
OnFailure(c, e, t) ==
    LET f == [c EXCEPT !.last_error = Some(e)]
    IN  IF c.max_retries = None
        THEN \* attempt < max_retries compares an int with None
             [f EXCEPT !.pc = "raised", !.exc = "TypeError"]
        ELSE IF c.attempt < c.max_retries[1]
        THEN \* await asyncio.sleep(2 ** attempt)
             [f EXCEPT !.pc = "sleeping", !.wait = 2 ^ c.attempt]
        ELSE \* logged; the loop goes on
             LoopHead(f, t)

\* the return of a 2xx response with a JSON body
OnResponse(c, body, t) ==
    [c EXCEPT !.pc = "returned",
              !.result = Some(ExecutionResult(c.tool_name, c.server_url,
                                              c.parameters, body, TRUE, t,
                                              None))]

\* a variant that counts a failed attempt in the usage statistics
ExecRespondCounting(i, outcome) ==
    LET c == calls[i]
    IN  /\ c.pc = "inflight"
        /\ outcome \in TransientErrors => c.requests < MaxAttempts
        /\ outcome \in Bodies => up[c.server_url]
        /\ IF outcome \in Bodies
           THEN /\ tool_cache' = UpdateUsage(tool_cache,
                                     ToolKey(c.server_url, c.tool_name), now,
                                     now - c.start_time)
                /\ calls' = [calls EXCEPT ![i] = OnResponse(c, outcome, now)]
           ELSE /\ calls' = [calls EXCEPT ![i] = OnFailure(c, outcome, now)]
                /\ tool_cache' = UpdateUsage(tool_cache,
                                     ToolKey(c.server_url, c.tool_name), now,
                                     now - c.start_time)
        /\ UNCHANGED <<now, schema_cache, execution_cache, semaphore,
                       batch, disc, fetch,
                   sweepVars, selVars, auxVars>>

\* the response of the remote execute request arrives, or the request fails;
\* a server that is not reachable sends no response body
ExecRespond(i, outcome) ==
    LET c == calls[i]
    IN  /\ c.pc = "inflight"
        /\ outcome \in TransientErrors => c.requests < MaxAttempts
        /\ outcome \in Bodies => up[c.server_url]
        /\ IF outcome \in Bodies
           THEN /\ tool_cache' = UpdateUsage(tool_cache,
                                     ToolKey(c.server_url, c.tool_name), now,
                                     now - c.start_time)
                /\ calls' = [calls EXCEPT ![i] = OnResponse(c, outcome, now)]
           ELSE /\ calls' = [calls EXCEPT ![i] = OnFailure(c, outcome, now)]
                /\ UNCHANGED tool_cache
        /\ UNCHANGED <<now, schema_cache, execution_cache, semaphore,
                       batch, disc, fetch,
                   sweepVars, selVars, auxVars>>

\* asyncio.sleep returns: the next pass of the loop
ExecWake(i) ==
    /\ calls[i].pc = "sleeping"
    /\ calls' = [calls EXCEPT ![i] = LoopHead(calls[i], now)]
    /\ UNCHANGED <<now, tool_cache, schema_cache, execution_cache, semaphore,
                   batch, disc, fetch,
                   sweepVars, selVars, auxVars>>


-----------------------------------------------------------------------------
(* execute_multiple_tools *)

\* the tasks of asyncio.gather: one execute_tool_with_retry coroutine per
\* request, max_retries omitted, the i-th in slot i
GatherTasks(cs, requests) ==
    [i \in CallIds |->
        IF i \in 1 .. Len(requests)
        THEN NewCall("batch", requests[i], None)
        ELSE cs[i]]

\* the entry of execution_results for the i-th task: its ExecutionResult, or
\* a failure entry built from the exception gather returned in its place
ResultEntry(c, request, t) ==
    IF c.pc = "returned"
    THEN c.result[1]
    ELSE ExecutionResult(request[2], request[1], request[3], None, FALSE, t,
                         Some(<<"Execution failed", c.exc>>))

\* a variant that lists the entries last task first
ExecutionResultsReversed(cs, requests, t) ==
    [i \in 1 .. Len(requests) |->
        ResultEntry(cs[Len(requests) + 1 - i], requests[Len(requests) + 1 - i],
                    t)]

\* execution_results: one entry per task, in the order of the requests
ExecutionResults(cs, requests, t) ==
    [i \in 1 .. Len(requests) |-> ResultEntry(cs[i], requests[i], t)]

\* a variant in which gather lets the first exception of a task propagate
\* (return_exceptions=False)
BatchOutcomePropagating(b, cs, t) ==
    IF \E i \in 1 .. Len(b.requests) : cs[i].pc = "raised"
    THEN [b EXCEPT !.pc = "raised"]
    ELSE [b EXCEPT !.pc = "returned",
                   !.results = [i \in 1 .. Len(b.requests) |->
                                   ResultEntry(cs[i], b.requests[i], t)]]

\* the return of execute_multiple_tools once gather has returned: with
\* return_exceptions=True a task's exception is a value of the result list
BatchOutcome(b, cs, t) ==
    [b EXCEPT !.pc = "returned",
              !.results = ExecutionResults(cs, b.requests, t)]

\* a caller calls execute_multiple_tools(tool_requests): the semaphore is
\* acquired when a permit is free, and the tasks are started
BatchCall(requests) ==
    /\ batch.pc = "idle"
    /\ \A i \in 1 .. Len(requests) : calls[i].pc = "idle"
    /\ IF semaphore > 0
       THEN /\ semaphore' = semaphore - 1
            /\ calls' = GatherTasks(calls, requests)
            /\ batch' = [batch EXCEPT !.pc = "gather", !.requests = requests]
       ELSE /\ batch' = [batch EXCEPT !.pc = "acquire", !.requests = requests]
            /\ UNCHANGED <<semaphore, calls,
                   sweepVars, selVars, auxVars>>
    /\ UNCHANGED <<now, tool_cache, schema_cache, execution_cache, disc, fetch,
                   sweepVars, selVars, auxVars>>

\* a permit is released to the waiting execute_multiple_tools
BatchAcquire ==
    /\ batch.pc = "acquire"
    /\ semaphore > 0
    /\ semaphore' = semaphore - 1
    /\ calls' = GatherTasks(calls, batch.requests)
    /\ batch' = [batch EXCEPT !.pc = "gather"]
    /\ UNCHANGED <<now, tool_cache, schema_cache, execution_cache, disc, fetch,
                   sweepVars, selVars, auxVars>>

\* asyncio.gather(return_exceptions=True) returns when every task has
\* finished; the results are built, the permit released
BatchReturn ==
    /\ batch.pc = "gather"
    /\ \A i \in 1 .. Len(batch.requests) : Finished(calls[i])
    /\ batch' = BatchOutcome(batch, calls, now)
    /\ semaphore' = semaphore + 1
    /\ UNCHANGED <<now, tool_cache, schema_cache, execution_cache, calls,
                   disc, fetch,
                   sweepVars, selVars, auxVars>>

-----------------------------------------------------------------------------
(* discover_tools_from_server *)

\* the outcomes of GET /tools.  ok: the body is a list of tool entries, all
\* of them cached and returned (names).  Not ok: the request fails
\* (unreachable, timeout, non-2xx; names is empty), or the body is malformed
\* and the loop over it raises after it has cached the well-formed entries
\* that come first (names).
\* A server may list the same tool name more than once.
NameLists == UNION {[1 .. n -> ToolNames] : n \in 0 .. MaxAdvertised}
DiscOutcomes == [ok : BOOLEAN, names : NameLists]

\* the outcomes in which no tool name is listed twice
PlainOutcomes ==
    {outcome \in DiscOutcomes :
        \A i, j \in DOMAIN outcome.names :
            outcome.names[i] = outcome.names[j] => i = j}

\* the set of the items of a list
Range(list) == {list[i] : i \in DOMAIN list}

\* a variant that drops the entries of the server that the list leaves out
CacheToolsReplacing(cache, server_url, names) ==
    [k \in {j \in DOMAIN cache : j[1] # server_url}
              \cup {ToolKey(server_url, n) : n \in Range(names)} |->
        IF k \in {ToolKey(server_url, n) : n \in Range(names)}
        THEN ToolInfo(k[2], server_url)
        ELSE cache[k]]

\* the ToolInfo entries of one discovery written into tool_cache, for the
\* list of the names of the entries
CacheTools(cache, server_url, names) ==
    [k \in DOMAIN cache \cup {ToolKey(server_url, n) : n \in Range(names)} |->
        IF k \in {ToolKey(server_url, n) : n \in Range(names)}
        THEN ToolInfo(k[2], server_url)
        ELSE cache[k]]

\* the history of the catalog after the same discovery, at time t, in the
\* behaviours that keep it
FetchTimes(fetched, server_url, names, t) ==
    IF fetched.on
    THEN [fetched EXCEPT !.at =
             [k \in DOMAIN fetched.at
                     \cup {ToolKey(server_url, n) : n \in Range(names)} |->
                 IF k \in {ToolKey(server_url, n) : n \in Range(names)}
                 THEN t
                 ELSE fetched.at[k]]]
    ELSE fetched

\* discover_tools_from_server(server_url) is called: the semaphore is
\* acquired when a permit is free, and the request is sent
DiscCall(s) ==
    /\ disc[s] = "idle"
    /\ IF semaphore > 0
       THEN /\ semaphore' = semaphore - 1
            /\ disc' = [disc EXCEPT ![s] = "inflight"]
       ELSE /\ disc' = [disc EXCEPT ![s] = "acquire"]
            /\ UNCHANGED semaphore
    /\ UNCHANGED <<now, tool_cache, schema_cache, execution_cache, calls,
                   batch, fetch,
                   sweepVars, selVars, auxVars>>

\* a permit is released to a waiting discovery
DiscAcquire(s) ==
    /\ disc[s] = "acquire"
    /\ semaphore > 0
    /\ semaphore' = semaphore - 1
    /\ disc' = [disc EXCEPT ![s] = "inflight"]
    /\ UNCHANGED <<now, tool_cache, schema_cache, execution_cache, calls,
                   batch, fetch,
                   sweepVars, selVars, auxVars>>

\* the result of a discovery task is put in the result list of the gather
\* of the discover_all_tools coroutine that started it
RecordDiscovery(swp, s, outcome) ==
    IF swp.pc = "gather" /\ s \in swp.started /\ swp.results[s] = None
    THEN [swp EXCEPT !.results[s] = Some(outcome)]
    ELSE swp

\* a variant that keeps the permit when the discovery raises
DiscRespondHolding(s, outcome) ==
    /\ disc[s] = "inflight"
    /\ (outcome.ok \/ outcome.names # <<>>) => up[s]
    /\ tool_cache' = CacheTools(tool_cache, s, outcome.names)
    /\ fetched_at' = FetchTimes(fetched_at, s, outcome.names, now)
    /\ semaphore' = IF outcome.ok THEN semaphore + 1 ELSE semaphore
    /\ disc' = [disc EXCEPT ![s] = "idle"]
    /\ sweep' = RecordDiscovery(sweep, s, outcome)
    /\ UNCHANGED <<now, schema_cache, execution_cache, calls, batch, fetch,
                   server_health, last_discovery, up, hresult, selVars,
                   applied, parked>>

\* the response of GET /tools arrives, or the request fails: the tools are
\* cached and returned, or MCPClientError is raised (after the entries before
\* a malformed one have been cached); the permit is released on both paths.
\* Only a reachable server sends a body.
DiscRespond(s, outcome) ==
    /\ disc[s] = "inflight"
    /\ (outcome.ok \/ outcome.names # <<>>) => up[s]
    /\ tool_cache' = CacheTools(tool_cache, s, outcome.names)
    /\ fetched_at' = FetchTimes(fetched_at, s, outcome.names, now)
    /\ semaphore' = semaphore + 1
    /\ disc' = [disc EXCEPT ![s] = "idle"]
    /\ sweep' = RecordDiscovery(sweep, s, outcome)
    /\ UNCHANGED <<now, schema_cache, execution_cache, calls, batch, fetch,
                   server_health, last_discovery, up, hresult, selVars,
                   applied, parked>>

-----------------------------------------------------------------------------
(* The environment of the health checks *)

\* a server becomes unreachable, or reachable again
ServerFlip(s) ==
    /\ up' = [up EXCEPT ![s] = ~@]
    /\ UNCHANGED <<now, tool_cache, schema_cache, execution_cache, semaphore,
                   calls, batch, disc, fetch, server_health, last_discovery,
                   hresult, sweep, selVars, auxVars>>

\* the application that holds the client assigns the is_healthy flag of an
\* entry of the public attribute server_health.  No method of the client
\* writes the flag after the constructor.
PatchServerHealth(s, healthy) ==
    /\ s \in DOMAIN server_health
    /\ server_health[s].is_healthy # healthy
    /\ server_health' = [server_health EXCEPT ![s].is_healthy = healthy]
    /\ UNCHANGED <<now, tool_cache, schema_cache, execution_cache, semaphore,
                   calls, batch, disc, fetch, last_discovery, up, hresult,
                   sweep, selVars, auxVars>>

-----------------------------------------------------------------------------
(* check_server_health, check_all_servers_health *)

\* the object check_server_health(server_url) returns, started at start_time
\* and finished at end_time: the entry of server_health with its
\* response_time set, or a DummyHealth.  No request is sent to the server.
check_server_health(health, server_url, start_time, end_time) ==
    IF server_url \notin DOMAIN health
    THEN [DummyHealth(server_url) EXCEPT !.response_time = end_time - start_time]
    ELSE [health[server_url] EXCEPT !.response_time = end_time - start_time]

\* server_health after check_server_health(server_url): the object returned
\* for a configured server is the entry itself
HealthAfterCheck(health, server_url, start_time, end_time) ==
    IF server_url \notin DOMAIN health
    THEN health
    ELSE [health EXCEPT ![server_url] =
             check_server_health(health, server_url, start_time, end_time)]

\* the application calls check_server_health(url) directly
CheckHealthDirect(url) ==
    /\ hresult' = Some(check_server_health(server_health, url, now, now))
    /\ server_health' = HealthAfterCheck(server_health, url, now, now)
    /\ UNCHANGED <<now, tool_cache, schema_cache, execution_cache, semaphore,
                   calls, batch, disc, fetch, last_discovery, up, sweep,
                   selVars, auxVars>>

\* the result of a check_server_health task in the result list of gather: a
\* reference to the object returned, which for a configured server is the
\* entry of server_health itself (entry names it)
TaskResult(health, server_url) ==
    [class |-> IF server_url \in DOMAIN health
               THEN "ServerHealth" ELSE "DummyHealth",
     entry |-> server_url]

\* a variant that builds the map anew from the results marked healthy
HealthMapHealthyOnly(health, checks) ==
    [s \in {h \in DOMAIN health \cap DOMAIN checks :
               /\ checks[h] # None
               /\ checks[h][1].class = "ServerHealth"
               /\ health[checks[h][1].entry].is_healthy} |->
        health[checks[s][1].entry]]

\* the loop of check_all_servers_health over the results of gather: a result
\* that is a ServerHealth is assigned to the entry of its server; the map is
\* then returned
HealthMap(health, checks) ==
    [s \in DOMAIN health |->
        IF /\ s \in DOMAIN checks
           /\ checks[s] # None
           /\ checks[s][1].class = "ServerHealth"
        THEN health[checks[s][1].entry]
        ELSE health[s]]

-----------------------------------------------------------------------------
(* discover_all_tools *)

\* a variant of the test that ignores force_refresh
UseCacheIgnoringForce(force_refresh, current_time, last) ==
    current_time - last < CacheTTL

\* the test of the cached path
UseCache(force_refresh, current_time, last) ==
    ~force_refresh /\ current_time - last < CacheTTL

\* a list of the members of a set, each once
ListOf(set) ==
    CHOOSE list \in [1 .. Cardinality(set) -> set] : Range(list) = set

\* cached_tools: the entries of tool_cache grouped by their server_url, one
\* list per server
cached_tools(cache) ==
    [s \in {cache[k].server_url : k \in DOMAIN cache} |->
        ListOf({cache[k] : k \in {j \in DOMAIN cache :
                                     cache[j].server_url = s}})]

\* a variant that takes every server of the health map
healthy_serversAll(health) == DOMAIN health

\* healthy_servers: the servers of server_health marked healthy
healthy_servers(health) == {s \in DOMAIN health : health[s].is_healthy}

\* a variant that leaves a failed server out of the map
discovered_toolsDropFailed(swp, cache) ==
    [s \in {h \in swp.healthy_servers : swp.results[h][1].ok} |->
        [i \in DOMAIN swp.results[s][1].names |->
            cache[ToolKey(s, swp.results[s][1].names[i])]]]

\* discovered_tools: for each healthy server the list its discovery task
\* returned, one ToolInfo per entry of the response (the object in the cache
\* for the last entry of a name; an object that was replaced in the cache
\* before any use for an earlier entry of the same name), or the empty list
\* when the task raised
discovered_tools(swp, cache) ==
    [s \in swp.healthy_servers |->
        IF swp.results[s][1].ok
        THEN LET names == swp.results[s][1].names
             IN  [i \in DOMAIN names |->
                     IF \E j \in DOMAIN names : j > i /\ names[j] = names[i]
                     THEN ToolInfo(names[i], s)
                     ELSE cache[ToolKey(s, names[i])]]
        ELSE <<>>]

\* the coroutine returns ret from the branch path
SweepReturned(swp, path, ret) ==
    [swp EXCEPT !.pc = "returned", !.path = path, !.ret = ret]

\* discover_all_tools(force_refresh) called at time t, up to its first
\* await: the cached catalog is returned, or the health tasks are created
\* and gathered
SweepBegin(owner, force_refresh, t, last, cache) ==
    LET swp == [IdleSweep EXCEPT !.owner = owner,
                                 !.force_refresh = force_refresh,
                                 !.current_time = t]
    IN  IF UseCache(force_refresh, t, last)
        THEN SweepReturned(swp, "cache", cached_tools(cache))
        ELSE [swp EXCEPT !.pc = "health",
                         !.checks = [s \in Servers |-> None]]

\* a variant of the branch without healthy servers that returns the cached
\* catalog
NoHealthyServersCached(swp, cache) ==
    SweepReturned(swp, "unhealthy", cached_tools(cache))

\* the branch without healthy servers: an empty map is returned
NoHealthyServers(swp, cache) ==
    SweepReturned(swp, "unhealthy", <<>>)

\* discover_all_tools from the return of check_all_servers_health to its
\* next await or return: healthy_servers is computed; the discovery tasks
\* are created and gathered, or the empty map is returned
AfterHealth(swp, health, cache) ==
    IF healthy_servers(health) = {}
    THEN NoHealthyServers(swp, cache)
    ELSE [swp EXCEPT !.pc = "gather",
                     !.healthy_servers = healthy_servers(health),
                     !.results = [s \in healthy_servers(health) |-> None]]

\* a variant that sets last_discovery on every return
LastDiscoveryAlways(swp, last) ==
    IF swp.pc = "returned" THEN swp.current_time ELSE last

\* self.last_discovery after a step that leaves the coroutine as swp: it is
\* set to current_time on the return of a full sweep
LastDiscovery(swp, last) ==
    IF swp.pc = "returned" /\ swp.path = "sweep"
    THEN swp.current_time
    ELSE last

-----------------------------------------------------------------------------
(* IntelligentToolSelector: the scores *)

\* _init_semantic_keywords
SemanticCategories ==
    {"file_operations", "web_operations", "system_operations", "computation"}

semantic_keywords(category) ==
    CASE category = "file_operations" ->
            {"file", "document", "text", "data", "content", "folder",
             "directory", "path", "filename", "extension", "read", "write",
             "save", "open", "create", "delete", "move", "copy", "edit"}
      [] category = "web_operations" ->
            {"web", "internet", "online", "url", "website", "page", "link",
             "http", "search", "google", "query", "fetch", "download",
             "browse", "scrape"}
      [] category = "system_operations" ->
            {"system", "computer", "server", "machine", "hardware",
             "software", "process", "service", "memory", "cpu", "disk",
             "network", "performance", "status", "info", "monitor", "check"}
      [] OTHER ->
            {"calculate", "compute", "math", "number", "formula", "equation",
             "arithmetic", "solve", "result", "answer", "total", "sum"}

\* the preferred_tools of the intent pattern of an intent
preferred_tools(intent) ==
    CASE intent = "file_read" -> {"read_file", "file_info"}
      [] intent = "file_write" -> {"write_file", "create_directory"}
      [] intent = "web_search" -> {"web_search", "search_news"}
      [] intent = "web_fetch" -> {"fetch_webpage", "url_info"}
      [] intent = "calculation" -> {"calculator"}
      [] intent = "system_info" ->
            {"system_info", "system_metrics", "memory_info"}
      [] intent = "process_management" -> {"process_list", "check_service"}
      [] intent = "file_search" -> {"search_files", "list_directory"}
      [] OTHER -> {}

\* extract_entities: the dict as the list of its (entity type, values)
\* items, in the order of the dict
extract_entities(text) ==
    IF Occurs("file.txt", text) \/ Occurs("config.txt", text)
    THEN << <<"file_path", <<"/path/to/file.txt", "config.txt">> >> >>
    ELSE IF Occurs("Python", text)
    THEN << <<"search_query", <<"Python">> >> >>
    ELSE IF Occurs("2 + 2 * 3", text) \/ Occurs("15 + 25", text)
    THEN << <<"math_expression", <<"2 + 2 * 3", "15 + 25">> >>,
            <<"number", <<"2", "2", "3", "15", "25">> >> >>
    ELSE IF Occurs("https://example.com", text)
    THEN << <<"url", <<"https://example.com">> >> >>
    ELSE IF Occurs("nginx", text)
    THEN << <<"process_name", <<"nginx">> >> >>
    ELSE <<>>

\* detect_intent: the list of (intent, confidence)
detect_intent(text, entities) ==
    IF Occurs("config.txt", text)
    THEN << <<"file_read", ROne>> >>
    ELSE IF Occurs("Python tutorials", text)
    THEN << <<"web_search", ROne>> >>
    ELSE IF Occurs("sum of 10 and 20", text) \/ Occurs("15 + 25", text)
    THEN << <<"calculation", ROne>> >>
    ELSE IF Occurs("system information", text)
    THEN << <<"system_info", ROne>> >>
    ELSE IF Occurs(".py files", text)
    THEN << <<"file_search", ROne>> >>
    ELSE <<>>

\* the score of one semantic category: the ratio of the smaller to the
\* larger keyword count of the text and the tool, times 1.5 for the tool's
\* own category, times 0.3
CategorySimilarity(text, tool_text, tool, category) ==
    LET text_category_matches ==
            Cardinality(semantic_keywords(category) \cap Phrases(text))
        tool_category_matches ==
            Cardinality(semantic_keywords(category) \cap Phrases(tool_text))
        category_similarity ==
            IF text_category_matches <= tool_category_matches
            THEN R(text_category_matches, tool_category_matches)
            ELSE R(tool_category_matches, text_category_matches)
    IN  IF text_category_matches > 0 /\ tool_category_matches > 0
        THEN RMul(IF tool.category = category
                  THEN RMul(category_similarity, R(3, 2))
                  ELSE category_similarity,
                  R(3, 10))
        ELSE RZero

\* calculate_semantic_similarity
calculate_semantic_similarity(text, tool) ==
    LET tool_text == {tool.name} \cup tool.description
        text_words == Words(text)
        tool_words == Words(tool_text)
        common ==
            IF text_words # {} /\ tool_words # {}
            THEN R(Cardinality(text_words \cap tool_words),
                   Cardinality(text_words \cup tool_words))
            ELSE RZero
        Cat(category) == CategorySimilarity(text, tool_text, tool, category)
        similarity_score ==
            RAdd(RAdd(RAdd(RAdd(common, Cat("file_operations")),
                           Cat("web_operations")),
                      Cat("system_operations")),
                 Cat("computation"))
    IN  RMin(similarity_score, ROne)

\* timedelta(days=7) in ticks of the clock: cache_ttl is 300 seconds
SevenDays == 2016 * CacheTTL
\* 5.0 seconds in ticks of the clock
FiveSeconds == R(CacheTTL, 60)

\* the tool_name of an entry of context_memory (past_context.get)
PastToolName(past_context) ==
    IF "tool_name" \in DOMAIN past_context
    THEN Some(past_context.tool_name)
    ELSE None

\* a variant that keeps the first n items of a list
LastOldest(list, n) ==
    IF Len(list) <= n THEN list ELSE SubSeq(list, 1, n)

\* the last n items of a list (list[-n:])
Last(list, n) ==
    IF Len(list) <= n THEN list ELSE SubSeq(list, Len(list) - n + 1, Len(list))

\* the overlap of the words of a past text and of the current context
ContextOverlap(past_context, context) ==
    LET past_words == Words(past_context.text)
        current_words == UNION {Words(context[i]) : i \in DOMAIN context}
    IN  IF past_words # {} /\ current_words # {}
        THEN R(Cardinality(past_words \cap current_words),
               Cardinality(past_words \cup current_words))
        ELSE RZero

RECURSIVE ContextScore(_, _, _)
\* the sum of the overlaps over the past contexts of the tool
ContextScore(tool, context, memory) ==
    IF memory = <<>>
    THEN RZero
    ELSE RAdd(IF PastToolName(Head(memory)) = Some(tool.name)
              THEN ContextOverlap(Head(memory), context)
              ELSE RZero,
              ContextScore(tool, context, Tail(memory)))

\* context_score of calculate_usage_preference: the overlaps with the last
\* ten past contexts of the tool, capped at 1
ContextPreference(tool, context, memory) ==
    IF context # <<>> /\ Len(memory) > 0
    THEN RMin(ContextScore(tool, context, Last(memory, 10)), ROne)
    ELSE RZero

\* calculate_usage_preference at time t
calculate_usage_preference(tool, context, history, memory, t) ==
    LET tool_key == ToolKey(tool.server_url, tool.name)
        usages == IF tool_key \in DOMAIN history THEN history[tool_key]
                  ELSE <<>>
        recent_usage == {i \in DOMAIN usages : t - usages[i] < SevenDays}
        usage_score == RMin(R(Cardinality(recent_usage), 10), ROne)
        context_score == ContextPreference(tool, context, memory)
        performance_score ==
            IF RLt(RZero, tool.avg_response_time)
            THEN RMax(RZero, RDiv(RSub(FiveSeconds, tool.avg_response_time),
                                  FiveSeconds))
            ELSE RZero
    IN  RAdd(RAdd(RMul(usage_score, R(4, 10)), RMul(context_score, R(4, 10))),
             RMul(performance_score, R(2, 10)))

\* the parameter names an entity type aligns with
alignments(entity_type) ==
    CASE entity_type = "file_path" ->
            {"file_path", "path", "filename", "directory_path"}
      [] entity_type = "url" -> {"url", "web_url", "link"}
      [] entity_type = "search_query" -> {"query", "search_term", "text"}
      [] entity_type = "math_expression" ->
            {"expression", "formula", "equation"}
      [] entity_type = "process_name" ->
            {"process_name", "service_name", "name"}
      [] OTHER -> {}

\* the items of entities whose type aligns with a parameter of the tool
AlignedEntities(tool, entities) ==
    SelectSeq(entities,
              LAMBDA item : tool.parameters \cap alignments(item[1]) # {})

\* entity_score: 0.5 for each aligned entity type
entity_compatibility(tool, entities) ==
    R(Len(AlignedEntities(tool, entities)), 2)

RECURSIVE IntentMatch(_, _, _)
\* the loop over the intents: (intent_score, matched_intent) after the
\* intents of the list, starting from acc
IntentMatch(tool, intents, acc) ==
    IF intents = <<>>
    THEN acc
    ELSE IntentMatch(tool, Tail(intents),
             IF tool.name \in preferred_tools(Head(intents)[1])
             THEN <<RMax(acc[1], Head(intents)[2]), Some(Head(intents)[1])>>
             ELSE acc)

\* a variant that adds entity_score without its weight
ConfidenceEntityUnweighted(semantic_score, intent_score, usage_score, entity_score) ==
    RAdd(RAdd(RAdd(RMul(semantic_score, R(3, 10)),
                   RMul(intent_score, R(4, 10))),
              RMul(usage_score, R(2, 10))),
         entity_score)

\* confidence: the weighted sum of the four scores
Confidence(semantic_score, intent_score, usage_score, entity_score) ==
    RAdd(RAdd(RAdd(RMul(semantic_score, R(3, 10)),
                   RMul(intent_score, R(4, 10))),
              RMul(usage_score, R(2, 10))),
         RMul(entity_score, R(1, 10)))

\* a score as the reasons show it, to two decimals (f"{score:.2f}")
Round2(x) ==
    LET n == x[1] * 100
        q == n \div x[2]
        r == n % x[2]
    IN  IF 2 * r > x[2] \/ (2 * r = x[2] /\ q % 2 = 1)
        THEN R(q + 1, 100)
        ELSE R(q, 100)

\* the entity alignment reasons of the aligned items
AlignmentReasons(items) ==
    [i \in 1 .. Len(items) |-> <<"Entity alignment", items[i][1]>>]

\* the ToolMatch of a tool for a message: its confidence, reasons and
\* matched intent
ToolMatch(tool, user_message, context, entities, intents, history, memory, t) ==
    LET semantic_score == calculate_semantic_similarity(user_message, tool)
        intent == IntentMatch(tool, SubSeq(intents, 1,
                                 IF Len(intents) < 2 THEN Len(intents) ELSE 2),
                              <<RZero, None>>)
        usage_score ==
            calculate_usage_preference(tool, context, history, memory, t)
        entity_score == entity_compatibility(tool, entities)
    IN  [tool |-> tool,
         confidence |-> Confidence(semantic_score, intent[1], usage_score,
                                   entity_score),
         reasons |->
            (IF RLt(R(3, 10), semantic_score)
             THEN << <<"Semantic match", Round2(semantic_score)>> >>
             ELSE <<>>)
            \o (IF RLt(RZero, intent[1])
                THEN << <<"Intent match", intent[2], Round2(intent[1])>> >>
                ELSE <<>>)
            \o (IF RLt(R(1, 10), usage_score)
                THEN << <<"Usage preference", Round2(usage_score)>> >>
                ELSE <<>>)
            \o AlignmentReasons(AlignedEntities(tool, entities)),
         intent |-> intent[2],
         entities |-> entities]

RECURSIVE InsertByConfidence(_, _)
\* a match put into a list sorted by descending confidence, after the
\* matches that are not below it
InsertByConfidence(sorted, m) ==
    IF sorted = <<>>
    THEN <<m>>
    ELSE IF RLt(Head(sorted).confidence, m.confidence)
    THEN <<m>> \o sorted
    ELSE <<Head(sorted)>> \o InsertByConfidence(Tail(sorted), m)

RECURSIVE SortByConfidence(_)
\* tool_matches.sort(key=confidence, reverse=True): a stable sort
SortByConfidence(matches) ==
    IF matches = <<>>
    THEN <<>>
    ELSE InsertByConfidence(
             SortByConfidence(SubSeq(matches, 1, Len(matches) - 1)),
             matches[Len(matches)])

\* the first n items of a list (list[:n])
Prefix(list, n) ==
    IF n >= 0
    THEN SubSeq(list, 1, IF n < Len(list) THEN n ELSE Len(list))
    ELSE SubSeq(list, 1, IF Len(list) + n > 0 THEN Len(list) + n ELSE 0)

-----------------------------------------------------------------------------
(* IntelligentToolSelector: select_tools *)

\* the orders in which all_tools can list the tools of the map
\* discover_all_tools returned: the lists of the map one after the other.
\* The order of a dict is the order in which its keys were first inserted,
\* which the model does not keep: every order is possible.
AllToolsOrders(ret) ==
    LET items == UNION {{<<s, i>> : i \in DOMAIN ret[s]} : s \in DOMAIN ret}
        orders == {order \in [1 .. Cardinality(items) -> items] :
                      \A i, j \in DOMAIN order : order[i] = order[j] => i = j}
    IN  {[n \in DOMAIN order |-> ret[order[n][1]][order[n][2]]] :
            order \in orders}

\* the entry select_tools appends to context_memory
ContextEntry(user_message, t, top, entities, intents) ==
    [text |-> user_message, timestamp |-> t, top_tool |-> top.tool.name,
     confidence |-> top.confidence, entities |-> entities,
     intents |-> intents]

\* the ToolMatch of every tool of the map discover_all_tools returned
ScoreTools(sel, ret, t, history, memory) ==
    LET entities == extract_entities(sel.user_message)
        intents == detect_intent(sel.user_message, entities)
    IN  [tool \in UNION {Range(ret[s]) : s \in DOMAIN ret} |->
            ToolMatch(tool, sel.user_message, sel.context, entities, intents,
                      history, memory, t)]

\* select_tools from the return of discover_all_tools to its own return, at
\* time t, with the tools in the order all_tools and their ToolMatch in
\* scored: the coroutine and context_memory afterwards
SelectFinish(sel, all_tools, scored, t, memory) ==
    LET entities == extract_entities(sel.user_message)
        intents == detect_intent(sel.user_message, entities)
        tool_matches ==
            SortByConfidence(
                SelectSeq([i \in 1 .. Len(all_tools) |-> scored[all_tools[i]]],
                          LAMBDA m : RLt(R(1, 10), m.confidence)))
    IN  IF all_tools = <<>>
        THEN [select |-> [sel EXCEPT !.pc = "returned", !.matches = <<>>],
              context_memory |-> memory]
        ELSE [select |-> [sel EXCEPT !.pc = "returned",
                             !.matches = Prefix(tool_matches, sel.max_tools)],
              context_memory |->
                  IF tool_matches # <<>>
                  THEN Last(Append(memory,
                                   ContextEntry(sel.user_message, t,
                                                Head(tool_matches), entities,
                                                intents)),
                            max_history_length)
                  ELSE memory]

\* select_tools sel goes on when the discover_all_tools it awaits has
\* returned as swp
SelectReturns(sel, swp) ==
    LET scored == ScoreTools(sel, swp.ret, now, usage_history, context_memory)
    IN  \E all_tools \in AllToolsOrders(swp.ret) :
            LET fin == SelectFinish(sel, all_tools, scored, now,
                                    context_memory)
            IN  /\ select' = fin.select
                /\ context_memory' = fin.context_memory

\* the step of discover_all_tools that leaves it as swp resumes the
\* select_tools that awaits it, when it returns
SelectResume(swp) ==
    IF swp.owner = "select_tools" /\ swp.pc = "returned"
    THEN /\ SelectReturns(select, swp)
         /\ UNCHANGED usage_history
    ELSE UNCHANGED selVars

\* the application calls select_tools(user_message, context, max_tools),
\* which calls discover_all_tools(); one call runs at a time in the model
SelectCall(user_message, context, max_tools) ==
    LET swp == SweepBegin("select_tools", FALSE, now, last_discovery,
                          tool_cache)
        sel == [IdleSelect EXCEPT !.pc = "discover",
                                  !.user_message = user_message,
                                  !.context = context,
                                  !.max_tools = max_tools]
    IN  /\ sweep.pc \in {"idle", "returned"}
        /\ select.pc \in {"idle", "returned"}
        /\ sweep' = swp
        /\ last_discovery' = LastDiscovery(swp, last_discovery)
        /\ IF swp.pc = "returned"
           THEN SelectReturns(sel, swp)
           ELSE /\ select' = sel
                /\ UNCHANGED context_memory
        /\ UNCHANGED <<now, tool_cache, schema_cache, execution_cache,
                       semaphore, calls, batch, disc, fetch, server_health,
                       up, hresult, usage_history, auxVars>>

\* a variant that never cuts a log
RecordUsageUnbounded(history, tool_key, t) ==
    LET log == IF tool_key \in DOMAIN history THEN history[tool_key] ELSE <<>>
    IN  [k \in DOMAIN history \cup {tool_key} |->
            IF k = tool_key THEN Append(log, t) ELSE history[k]]

\* usage_history after record_tool_usage for tool_key at time t
RecordUsage(history, tool_key, t) ==
    LET log == IF tool_key \in DOMAIN history THEN history[tool_key] ELSE <<>>
    IN  [k \in DOMAIN history \cup {tool_key} |->
            IF k = tool_key
            THEN IF Len(Append(log, t)) > usage_history_limit
                 THEN Last(Append(log, t), usage_history_limit)
                 ELSE Append(log, t)
            ELSE history[k]]

\* record_tool_usage(server_url, tool_name)
RecordToolUsage(server_url, tool_name) ==
    /\ usage_history' =
          RecordUsage(usage_history, ToolKey(server_url, tool_name), now)
    /\ UNCHANGED <<now, tool_cache, schema_cache, execution_cache, semaphore,
                   calls, batch, disc, fetch, sweepVars, context_memory,
                   select, auxVars>>

-----------------------------------------------------------------------------
(* _categorize_tool and _extract_tags applied by themselves *)

\* _categorize_tool(name, description) returns
CategorizeTool(name, description) ==
    /\ applied' = Some(<<"_categorize_tool", name, description,
                         categorize_tool(name, description)>>)
    /\ UNCHANGED <<now, tool_cache, schema_cache, execution_cache, semaphore,
                   calls, batch, disc, fetch, sweepVars, selVars, fetched_at, parked>>

\* _extract_tags(name, description) returns
ExtractTags(name, description) ==
    /\ applied' = Some(<<"_extract_tags", name, description,
                         extract_tags(name, description)>>)
    /\ UNCHANGED <<now, tool_cache, schema_cache, execution_cache, semaphore,
                   calls, batch, disc, fetch, sweepVars, selVars, fetched_at, parked>>

-----------------------------------------------------------------------------
(* discover_all_tools and record_tool_usage *)

\* the application calls discover_all_tools(force_refresh); one call runs at
\* a time in the model
SweepCall(force_refresh) ==
    LET swp == SweepBegin("application", force_refresh, now, last_discovery,
                          tool_cache)
    IN  /\ sweep.pc \in {"idle", "returned"}
        /\ select.pc # "discover"
        /\ sweep' = swp
        /\ last_discovery' = LastDiscovery(swp, last_discovery)
        /\ UNCHANGED <<now, tool_cache, schema_cache, execution_cache,
                       semaphore, calls, batch, disc, fetch, server_health,
                       up, hresult, selVars, auxVars>>

\* a variant in which a health check runs only with a free permit
HealthTaskWithPermit(s) ==
    /\ sweep.pc = "health"
    /\ sweep.checks[s] = None
    /\ semaphore > 0
    /\ sweep' = [sweep EXCEPT !.checks[s] =
                    Some(TaskResult(server_health, s))]
    /\ server_health' = HealthAfterCheck(server_health, s, now, now)
    /\ UNCHANGED <<now, tool_cache, schema_cache, execution_cache, semaphore,
                   calls, batch, disc, fetch, last_discovery, up, hresult,
                   selVars, auxVars>>

\* a check_server_health task of the gather of check_all_servers_health
\* runs: it has no await and finishes in one step
HealthTask(s) ==
    /\ sweep.pc = "health"
    /\ sweep.checks[s] = None
    /\ sweep' = [sweep EXCEPT !.checks[s] =
                    Some(TaskResult(server_health, s))]
    /\ server_health' = HealthAfterCheck(server_health, s, now, now)
    /\ UNCHANGED <<now, tool_cache, schema_cache, execution_cache, semaphore,
                   calls, batch, disc, fetch, last_discovery, up, hresult,
                   selVars, auxVars>>

\* gather returns when every health task has finished:
\* check_all_servers_health records the results and returns, and
\* discover_all_tools goes on to its next await or returns
HealthReturn ==
    LET health == HealthMap(server_health, sweep.checks)
        swp == AfterHealth(sweep, health, tool_cache)
    IN  /\ sweep.pc = "health"
        /\ \A s \in Servers : sweep.checks[s] # None
        /\ server_health' = health
        /\ sweep' = swp
        /\ last_discovery' = LastDiscovery(swp, last_discovery)
        /\ SelectResume(swp)
        /\ UNCHANGED <<now, tool_cache, schema_cache, execution_cache,
                       semaphore, calls, batch, disc, fetch, up, hresult,
                       auxVars>>

\* a discover_tools_from_server task of the gather of discover_all_tools
\* starts
SweepDiscStart(s) ==
    /\ sweep.pc = "gather"
    /\ s \in sweep.healthy_servers
    /\ s \notin sweep.started
    /\ disc[s] = "idle"
    /\ sweep' = [sweep EXCEPT !.started = @ \cup {s}]
    /\ IF semaphore > 0
       THEN /\ semaphore' = semaphore - 1
            /\ disc' = [disc EXCEPT ![s] = "inflight"]
       ELSE /\ disc' = [disc EXCEPT ![s] = "acquire"]
            /\ UNCHANGED semaphore
    /\ UNCHANGED <<now, tool_cache, schema_cache, execution_cache, calls,
                   batch, fetch, server_health, last_discovery, up, hresult,
                   selVars, auxVars>>

\* gather returns when every discovery task has finished: discovered_tools
\* is built, last_discovery is set and the map is returned
SweepReturn ==
    LET swp == SweepReturned(sweep, "sweep", discovered_tools(sweep, tool_cache))
    IN  /\ sweep.pc = "gather"
        /\ \A s \in sweep.healthy_servers : sweep.results[s] # None
        /\ sweep' = swp
        /\ last_discovery' = LastDiscovery(swp, last_discovery)
        /\ SelectResume(swp)
        /\ UNCHANGED <<now, tool_cache, schema_cache, execution_cache,
                       semaphore, calls, batch, disc, fetch, server_health,
                       up, hresult, auxVars>>

-----------------------------------------------------------------------------
(* get_tool_schema_cached *)

\* a variant that replaces the cache by the schema received
SchemaRespondEvicting(k, ok) ==
    /\ fetch[k] > 0
    /\ ok => up[k[1]]
    /\ fetch' = [fetch EXCEPT ![k] = @ - 1]
    /\ schema_cache' = IF ok THEN [j \in {k} |-> SchemaOf(k)] ELSE schema_cache
    /\ UNCHANGED <<now, tool_cache, execution_cache, semaphore, calls, batch,
                   disc,
                   sweepVars, selVars, auxVars>>

\* get_tool_schema_cached(server_url, tool_name) is called: with the schema
\* cached it returns the cached schema at once, otherwise the request is
\* sent, whether or not another call is waiting for the same schema
SchemaCall(k) ==
    IF k \in DOMAIN schema_cache
    THEN /\ applied' = Some(<<"get_tool_schema_cached", k, schema_cache[k]>>)
         /\ UNCHANGED <<now, tool_cache, schema_cache, execution_cache,
                        semaphore, calls, batch, disc, fetch,
                        sweepVars, selVars, fetched_at, parked>>
    ELSE /\ fetch[k] < MaxFetches
         /\ fetch' = [fetch EXCEPT ![k] = @ + 1]
         /\ UNCHANGED <<now, tool_cache, schema_cache, execution_cache,
                        semaphore, calls, batch, disc,
                        sweepVars, selVars, auxVars>>

\* the response of GET /tools/{name}/schema arrives at one of the calls that
\* wait for it: the schema is cached, or MCPClientError is raised (the only
\* outcome when the server is not reachable)
SchemaRespond(k, ok) ==
    /\ fetch[k] > 0
    /\ ok => up[k[1]]
    /\ fetch' = [fetch EXCEPT ![k] = @ - 1]
    /\ schema_cache' =
          IF ok
          THEN [j \in DOMAIN schema_cache \cup {k} |->
                   IF j = k THEN SchemaOf(k) ELSE schema_cache[j]]
          ELSE schema_cache
    /\ UNCHANGED <<now, tool_cache, execution_cache, semaphore, calls, batch,
                   disc,
                   sweepVars, selVars, auxVars>>

-----------------------------------------------------------------------------
(* The specifications.  The state space of all operations together is far  *)
(* beyond explicit-state checking, so each specification runs the          *)
(* operations of one concern, from the same initial state.                 *)

\* the messages of select_tools while sweeps run
SweepMessages == {{"calculate"}, {"hello"}}

\* the request lists of execute_multiple_tools: well-formed parameters
BatchRequests == Servers \X ToolNames \X {"good"}
RequestLists == UNION {[1 .. n -> BatchRequests] : n \in 1 .. MaxBatch}

\* Retry: one caller of execute_tool_with_retry, with every argument
\* combination, while tools are discovered.  Discovery alone never exhausts
\* the semaphore here, so no discovery waits for a permit.
NextRetry ==
    \/ \E req \in Requests, m \in RetryArgs : ExecCall(CallerA, req, m)
    \/ ExecBegin(CallerA)
    \/ \E outcome \in ExecOutcomes : ExecRespond(CallerA, outcome)
    \/ ExecWake(CallerA)
    \/ \E s \in Servers : DiscCall(s)
    \/ \E s \in Servers, outcome \in PlainOutcomes : DiscRespond(s, outcome)

SpecRetry == Init /\ [][NextRetry]_vars

\* Batch: execute_multiple_tools and discovery share the semaphore
NextBatch ==
    \/ \E requests \in RequestLists : BatchCall(requests)
    \/ BatchAcquire
    \/ BatchReturn
    \/ \E i \in BatchSlots : ExecBegin(i)
    \/ \E i \in BatchSlots, outcome \in ExecOutcomes : ExecRespond(i, outcome)
    \/ \E s \in Servers : DiscCall(s)
    \/ \E s \in Servers : DiscAcquire(s)
    \/ \E s \in Servers, outcome \in PlainOutcomes : DiscRespond(s, outcome)

SpecBatch == Init /\ [][NextBatch]_vars

\* Limit: execute_multiple_tools, a caller of execute_tool_with_retry and
\* discovery, all at once
NextLimit ==
    \/ \E requests \in RequestLists : BatchCall(requests)
    \/ BatchAcquire
    \/ BatchReturn
    \/ \E req \in BatchRequests, m \in {None, Some(0)} :
          ExecCall(CallerA, req, m)
    \/ \E i \in BatchSlots \cup {CallerA} : ExecBegin(i)
    \/ \E i \in BatchSlots \cup {CallerA}, outcome \in ExecOutcomes :
          ExecRespond(i, outcome)
    \/ \E s \in Servers : DiscCall(s)
    \/ \E s \in Servers : DiscAcquire(s)
    \/ \E s \in Servers, outcome \in PlainOutcomes : DiscRespond(s, outcome)

SpecLimit == Init /\ [][NextLimit]_vars

\* Cache: two callers of execute_tool_with_retry while the clock advances
NextCache ==
    \/ Tick
    \/ \E i \in DirectSlots, req \in Requests, m \in {None, Some(0)} :
          ExecCall(i, req, m)
    \/ \E i \in DirectSlots : ExecBegin(i)
    \/ \E i \in DirectSlots, outcome \in ExecOutcomes : ExecRespond(i, outcome)

SpecCache == Init /\ [][NextCache]_vars

\* Validate: one caller of execute_tool_with_retry while schemas are fetched
NextValidate ==
    \/ \E req \in Requests, m \in RetryArgs : ExecCall(CallerA, req, m)
    \/ ExecBegin(CallerA)
    \/ \E outcome \in ExecOutcomes : ExecRespond(CallerA, outcome)
    \/ ExecWake(CallerA)
    \/ \E k \in ToolKeys : SchemaCall(k)
    \/ \E k \in ToolKeys, ok \in BOOLEAN : SchemaRespond(k, ok)

SpecValidate == Init /\ [][NextValidate]_vars

\* Sweep: discover_all_tools, forced or not, while the clock advances, the
\* servers come and go and the application marks servers
NextSweep ==
    \/ Tick
    \/ \E s \in Servers : ServerFlip(s)
    \/ \E s \in Servers, healthy \in BOOLEAN : PatchServerHealth(s, healthy)
    \/ \E force_refresh \in BOOLEAN : SweepCall(force_refresh)
    \/ \E s \in Servers : HealthTask(s)
    \/ HealthReturn
    \/ \E s \in Servers : SweepDiscStart(s)
    \/ \E s \in Servers, outcome \in PlainOutcomes : DiscRespond(s, outcome)
    \/ SweepReturn
    \/ \E user_message \in SweepMessages :
          select.pc = "idle" /\ SelectCall(user_message, None, 3)

SpecSweep == Init /\ [][NextSweep]_vars

\* Health: health checks, by discover_all_tools(force_refresh=True) and by
\* the application, while the servers come and go and the application marks
\* servers
NextHealth ==
    \/ \E s \in Servers : ServerFlip(s)
    \/ \E s \in Servers, healthy \in BOOLEAN : PatchServerHealth(s, healthy)
    \/ \E url \in Urls : CheckHealthDirect(url)
    \/ SweepCall(TRUE)
    \/ \E s \in Servers : HealthTask(s)
    \/ HealthReturn
    \/ \E s \in Servers : SweepDiscStart(s)
    \/ \E s \in Servers, outcome \in DiscOutcomes : DiscRespond(s, outcome)
    \/ SweepReturn

SpecHealth == Init /\ [][NextHealth]_vars

\* Usage: sweeps while a caller of execute_tool_with_retry uses a tool
NextUsage ==
    \/ Tick
    \/ SweepCall(TRUE)
    \/ \E s \in Servers : HealthTask(s)
    \/ HealthReturn
    \/ \E s \in Servers : SweepDiscStart(s)
    \/ \E s \in Servers, outcome \in PlainOutcomes : DiscRespond(s, outcome)
    \/ SweepReturn
    \/ \E req \in BatchRequests : ExecCall(CallerA, req, Some(0))
    \/ ExecBegin(CallerA)
    \/ \E outcome \in ExecOutcomes : ExecRespond(CallerA, outcome)

SpecUsage == Init /\ [][NextUsage]_vars

\* Select: select_tools as a function of its inputs.  The catalog, the
\* usage history and the context memory are drawn in the initial state, at a
\* time at which the catalog is fresh, and select_tools is applied to every
\* message.
SelectorTools == {"calculator", "read_file", "calc"}
SelectorKeys == {"s1"} \X SelectorTools
\* avg_response_time: no use yet, 2.5 seconds, one tick
AvgTimes == {RZero, RDiv(FiveSeconds, RInt(2)), ROne}
\* the catalogs: some of the tools, all with the same avg_response_time
Catalogs ==
    {[k \in keys |->
         [ToolInfo(k[2], k[1]) EXCEPT
             !.avg_response_time = avg,
             !.usage_count = IF avg = RZero THEN 0 ELSE 1,
             !.last_used = IF avg = RZero THEN None ELSE Some(1)]] :
       keys \in SUBSET SelectorKeys, avg \in AvgTimes}
\* the usage histories: every tool of the catalog used n times at time 0
Histories(cache) ==
    {[k \in DOMAIN cache |-> [i \in 1 .. n |-> 0]] : n \in {0, 10}}
\* the context memories: empty, or the entry of an earlier selection
Memories ==
    {<<>>,
     <<[text |-> {"calculate"}, timestamp |-> 0, top_tool |-> "calculator",
        confidence |-> R(1, 2), entities |-> <<>>, intents |-> <<>>]>>}
\* the messages
MessagePieces ==
    {"Calculate", "15 + 25", "2 + 2 * 3", "read", "config.txt", "hello",
     "total sum answer"}
Messages == {m \in SUBSET MessagePieces : Cardinality(m) <= MaxPieces}
\* the context arguments
Contexts == {None, <<{"calculate"}>>}

InitSelect ==
    /\ now = 1
    /\ tool_cache \in Catalogs
    /\ schema_cache = None
    /\ execution_cache = None
    /\ semaphore = ParallelLimit
    /\ calls = [i \in CallIds |-> IdleCall]
    /\ batch = [pc |-> "idle", requests |-> None, results |-> None]
    /\ disc = [s \in Servers |-> "idle"]
    /\ fetch = [k \in ToolKeys |-> 0]
    /\ server_health = [s \in Servers |-> ServerHealth(s, 0)]
    /\ last_discovery = 0
    /\ up = [s \in Servers |-> TRUE]
    /\ hresult = None
    /\ sweep = IdleSweep
    /\ usage_history \in Histories(tool_cache)
    /\ context_memory \in Memories
    /\ select = IdleSelect
    /\ fetched_at = [on |-> FALSE, at |-> <<>>]
    /\ applied = None
    /\ parked = None

\* the max_tools arguments: the API passes the integer of the request on
MaxToolsArgs == {0 - 1, 1, 3}

NextSelect ==
    \E user_message \in Messages, context \in Contexts,
       max_tools \in MaxToolsArgs :
        select.pc = "idle" /\ SelectCall(user_message, context, max_tools)

SpecSelect == InitSelect /\ [][NextSelect]_vars

\* Schema: get_tool_schema_cached, by several callers, while the clock
\* advances and the servers come and go
NextSchema ==
    \/ Tick
    \/ \E s \in Servers : ServerFlip(s)
    \/ \E k \in ToolKeys : SchemaCall(k)
    \/ \E k \in ToolKeys, ok \in BOOLEAN : SchemaRespond(k, ok)

SpecSchema == Init /\ [][NextSchema]_vars

\* Barrier: forced sweeps while the application calls
\* discover_tools_from_server and execute_multiple_tools (with one request)
\* itself, which take permits of the semaphore
NextBarrier ==
    \/ \E req \in BatchRequests : BatchCall(<<req>>)
    \/ BatchAcquire
    \/ BatchReturn
    \/ ExecBegin(1)
    \/ \E outcome \in ExecOutcomes : ExecRespond(1, outcome)
    \/ \E s \in Servers : DiscCall(s)
    \/ \E s \in Servers : DiscAcquire(s)
    \/ \E s \in Servers, outcome \in PlainOutcomes : DiscRespond(s, outcome)
    \/ SweepCall(TRUE)
    \/ \E s \in Servers : HealthTask(s)
    \/ HealthReturn
    \/ \E s \in Servers : SweepDiscStart(s)
    \/ SweepReturn

SpecBarrier == Init /\ [][NextBarrier]_vars

\* Describe: _categorize_tool and _extract_tags applied, once in a
\* behaviour, to the names of the tests and to descriptions of up to
\* MaxWords pieces
DescribedNames ==
    {"file_reader", "web_search", "system_info", "calculator", "unknown_tool",
     "secure_storage", "realtime_monitor", "async_processor", "ai_classifier"}
DescriptionPieces ==
    {"files", "internet", "system", "mathematical", "storage", "monitoring",
     "data", "network", "real-time"}
Descriptions ==
    {d \in SUBSET DescriptionPieces : Cardinality(d) <= MaxWords}

NextDescribe ==
    \/ \E name \in DescribedNames, description \in Descriptions :
          applied = None /\ CategorizeTool(name, description)
    \/ \E name \in DescribedNames, description \in Descriptions :
          applied = None /\ ExtractTags(name, description)

SpecDescribe == Init /\ [][NextDescribe]_vars

\* Stale: sweeps and cache hits of discover_all_tools while the clock
\* advances, with the time at which each cached descriptor was last received
\* from its endpoint kept in fetched_at
InitStale ==
    /\ now = 0
    /\ tool_cache = None
    /\ schema_cache = None
    /\ execution_cache = None
    /\ semaphore = ParallelLimit
    /\ calls = [i \in CallIds |-> IdleCall]
    /\ batch = [pc |-> "idle", requests |-> None, results |-> None]
    /\ disc = [s \in Servers |-> "idle"]
    /\ fetch = [k \in ToolKeys |-> 0]
    /\ server_health = [s \in Servers |-> ServerHealth(s, 0)]
    /\ last_discovery = EpochTime
    /\ up = [s \in Servers |-> TRUE]
    /\ hresult = None
    /\ sweep = IdleSweep
    /\ usage_history = <<>>
    /\ context_memory = <<>>
    /\ select = IdleSelect
    /\ fetched_at = [on |-> TRUE, at |-> <<>>]
    /\ applied = None
    /\ parked = None

NextStale ==
    \/ Tick
    \/ \E force_refresh \in BOOLEAN : SweepCall(force_refresh)
    \/ \E s \in Servers : HealthTask(s)
    \/ HealthReturn
    \/ \E s \in Servers : SweepDiscStart(s)
    \/ \E s \in Servers, outcome \in PlainOutcomes : DiscRespond(s, outcome)
    \/ SweepReturn

SpecStale == InitStale /\ [][NextStale]_vars

\* Catalog: sweeps and cache hits of discover_all_tools, called by the
\* application and by select_tools, with servers that may list a tool name
\* more than once
NextCatalog ==
    \/ Tick
    \/ \E force_refresh \in BOOLEAN : SweepCall(force_refresh)
    \/ \E s \in Servers : HealthTask(s)
    \/ HealthReturn
    \/ \E s \in Servers : SweepDiscStart(s)
    \/ \E s \in Servers, outcome \in DiscOutcomes : DiscRespond(s, outcome)
    \/ SweepReturn
    \/ \E user_message \in SweepMessages, max_tools \in {1, 3} :
          select.pc = "idle" /\ SelectCall(user_message, None, max_tools)

SpecCatalog == Init /\ [][NextCatalog]_vars

\* Stats: two callers of execute_tool_with_retry use the tools of a catalog
\* that discovery has filled, while the clock advances
InitStats ==
    /\ now = 0
    /\ tool_cache = [k \in ToolKeys |-> ToolInfo(k[2], k[1])]
    /\ schema_cache = None
    /\ execution_cache = None
    /\ semaphore = ParallelLimit
    /\ calls = [i \in CallIds |-> IdleCall]
    /\ batch = [pc |-> "idle", requests |-> None, results |-> None]
    /\ disc = [s \in Servers |-> "idle"]
    /\ fetch = [k \in ToolKeys |-> 0]
    /\ server_health = [s \in Servers |-> ServerHealth(s, 0)]
    /\ last_discovery = 0
    /\ up = [s \in Servers |-> TRUE]
    /\ hresult = None
    /\ sweep = IdleSweep
    /\ usage_history = <<>>
    /\ context_memory = <<>>
    /\ select = IdleSelect
    /\ fetched_at = [on |-> FALSE, at |-> <<>>]
    /\ applied = None
    /\ parked = None

NextStats ==
    \/ Tick
    \/ \E i \in {CallerA, CallerB}, req \in BatchRequests,
          m \in {Some(0), Some(1)} : ExecCall(i, req, m)
    \/ \E i \in {CallerA, CallerB} : ExecBegin(i)
    \/ \E i \in {CallerA, CallerB}, outcome \in ExecOutcomes :
          ExecRespond(i, outcome)
    \/ \E i \in {CallerA, CallerB} : ExecWake(i)

SpecStats == InitStats /\ [][NextStats]_vars

\* the event loop resumes the other discover_all_tools coroutine: the one
\* that ran stays suspended at its await, with its discovery tasks
Switch ==
    /\ parked # None
    /\ sweep' = parked.sweep
    /\ disc' = parked.disc
    /\ parked' = [sweep |-> sweep, disc |-> disc]
    /\ UNCHANGED <<now, tool_cache, schema_cache, execution_cache, semaphore,
                   calls, batch, fetch, server_health, last_discovery, up,
                   hresult, selVars, fetched_at, applied>>

\* Race: two callers of discover_all_tools(force_refresh = True) while the
\* clock advances
InitRace ==
    /\ now = 0
    /\ tool_cache = None
    /\ schema_cache = None
    /\ execution_cache = None
    /\ semaphore = ParallelLimit
    /\ calls = [i \in CallIds |-> IdleCall]
    /\ batch = [pc |-> "idle", requests |-> None, results |-> None]
    /\ disc = [s \in Servers |-> "idle"]
    /\ fetch = [k \in ToolKeys |-> 0]
    /\ server_health = [s \in Servers |-> ServerHealth(s, 0)]
    /\ last_discovery = EpochTime
    /\ up = [s \in Servers |-> TRUE]
    /\ hresult = None
    /\ sweep = IdleSweep
    /\ usage_history = <<>>
    /\ context_memory = <<>>
    /\ select = IdleSelect
    /\ fetched_at = [on |-> FALSE, at |-> <<>>]
    /\ applied = None
    /\ parked = [sweep |-> IdleSweep, disc |-> [s \in Servers |-> "idle"]]

NextRace ==
    \/ Tick
    \/ SweepCall(TRUE)
    \/ \E s \in Servers : HealthTask(s)
    \/ HealthReturn
    \/ \E s \in Servers : SweepDiscStart(s)
    \/ \E s \in Servers : DiscAcquire(s)
    \/ \E s \in Servers, outcome \in PlainOutcomes : DiscRespond(s, outcome)
    \/ SweepReturn
    \/ Switch

SpecRace == InitRace /\ [][NextRace]_vars

\* get_tools_by_category: the tools of the list returned
get_tools_by_category(cache, category) ==
    {cache[k] : k \in {j \in DOMAIN cache : cache[j].category = category}}

\* get_tools_by_tags: the tools of the list returned
get_tools_by_tags(cache, tags) ==
    {cache[k] : k \in {j \in DOMAIN cache :
                          cache[j].tags # {} /\ cache[j].tags \cap tags # {}}}

\* get_server_statistics: the servers and the tools of the catalog, counted
\* by category and by server, the tools used and the tools timed (the
\* catalogs of the model hold fewer than the ten tools the two lists are
\* cut to)
get_server_statistics(cache, health) ==
    LET Tools(P(_)) == {k \in DOMAIN cache : P(cache[k])}
        Used(tool) == tool.usage_count > 0
        Timed(tool) == RLt(RZero, tool.avg_response_time)
    IN  [servers |->
            [s \in DOMAIN health |->
                [healthy |-> health[s].is_healthy,
                 response_time |-> health[s].response_time,
                 error_count |-> health[s].error_count,
                 last_check |-> health[s].last_check,
                 capabilities |-> health[s].capabilities]],
         total_count |-> Cardinality(DOMAIN cache),
         by_category |->
            [c \in {cache[k].category : k \in DOMAIN cache} |->
                Cardinality({k \in DOMAIN cache : cache[k].category = c})],
         by_server |->
            [u \in {cache[k].server_url : k \in DOMAIN cache} |->
                Cardinality({k \in DOMAIN cache : cache[k].server_url = u})],
         most_used |->
            {<<cache[k].name, cache[k].server_url, cache[k].usage_count>> :
                k \in Tools(Used)},
         fastest_response |->
            {<<cache[k].name, cache[k].server_url, cache[k].avg_response_time>> :
                k \in Tools(Timed)}]

\* get_tools_by_category(category) returns
GetToolsByCategory(category) ==
    /\ applied' = Some(<<"get_tools_by_category", category,
                         get_tools_by_category(tool_cache, category)>>)
    /\ UNCHANGED <<now, tool_cache, schema_cache, execution_cache, semaphore,
                   calls, batch, disc, fetch, sweepVars, selVars, fetched_at,
                   parked>>

\* get_tools_by_tags(tags) returns
GetToolsByTags(tags) ==
    /\ applied' = Some(<<"get_tools_by_tags", tags,
                         get_tools_by_tags(tool_cache, tags)>>)
    /\ UNCHANGED <<now, tool_cache, schema_cache, execution_cache, semaphore,
                   calls, batch, disc, fetch, sweepVars, selVars, fetched_at,
                   parked>>

\* get_server_statistics() returns
GetServerStatistics ==
    /\ applied' = Some(<<"get_server_statistics",
                         get_server_statistics(tool_cache, server_health)>>)
    /\ UNCHANGED <<now, tool_cache, schema_cache, execution_cache, semaphore,
                   calls, batch, disc, fetch, sweepVars, selVars, fetched_at,
                   parked>>

\* Keep: sweeps and cache hits of discover_all_tools and the queries of the
\* catalog, with servers that fail, change what they list and are marked
\* unhealthy
NextKeep ==
    \/ \E force_refresh \in BOOLEAN : SweepCall(force_refresh)
    \/ \E s \in Servers : HealthTask(s)
    \/ HealthReturn
    \/ \E s \in Servers : SweepDiscStart(s)
    \/ \E s \in Servers, outcome \in PlainOutcomes : DiscRespond(s, outcome)
    \/ SweepReturn
    \/ \E s \in Servers, healthy \in BOOLEAN : PatchServerHealth(s, healthy)
    \/ \E category \in {"computation", "general"} :
          GetToolsByCategory(category)
    \/ \E tags \in {{"math"}, {"web"}} : GetToolsByTags(tags)
    \/ GetServerStatistics

SpecKeep == Init /\ [][NextKeep]_vars

\* Learn: the selector's context memory and usage logs over calls of
\* select_tools and record_tool_usage, from states in which the memory and
\* the logs are empty, one short of their caps, or at their caps.  The
\* entries made before the initial state carry time 0, the later ones time 1.
LearnHistories ==
    {[k \in SelectorKeys |-> [i \in 1 .. n |-> 0]] :
        n \in {0, usage_history_limit - 1, usage_history_limit}}
LearnMemories ==
    {[i \in 1 .. n |->
         [text |-> {"calculate"}, timestamp |-> 0,
          top_tool |-> IF i = 1 THEN "read_file" ELSE "calculator",
          confidence |-> R(1, 2), entities |-> <<>>, intents |-> <<>>]] :
        n \in {0, max_history_length - 1, max_history_length}}
LearnMessages == {{"Calculate", "15 + 25"}, {"hello"}}
LearnMaxTools == {0 - 1, 3}
LearnUses == {"s1"} \X {"calculator", "read_file"}

InitLearn ==
    /\ now = 1
    /\ tool_cache = [k \in SelectorKeys |-> ToolInfo(k[2], k[1])]
    /\ schema_cache = None
    /\ execution_cache = None
    /\ semaphore = ParallelLimit
    /\ calls = [i \in CallIds |-> IdleCall]
    /\ batch = [pc |-> "idle", requests |-> None, results |-> None]
    /\ disc = [s \in Servers |-> "idle"]
    /\ fetch = [k \in ToolKeys |-> 0]
    /\ server_health = [s \in Servers |-> ServerHealth(s, 0)]
    /\ last_discovery = 0
    /\ up = [s \in Servers |-> TRUE]
    /\ hresult = None
    /\ sweep = IdleSweep
    /\ usage_history \in LearnHistories
    /\ context_memory \in LearnMemories
    /\ select = IdleSelect
    /\ fetched_at = [on |-> FALSE, at |-> <<>>]
    /\ applied = None
    /\ parked = None

NextLearn ==
    \/ \E user_message \in LearnMessages, max_tools \in LearnMaxTools :
          /\ Cardinality({i \in DOMAIN context_memory :
                             context_memory[i].timestamp = now}) < MaxSelects
          /\ SelectCall(user_message, None, max_tools)
    \/ \E k \in LearnUses :
          /\ Cardinality({i \in DOMAIN usage_history[k] :
                             usage_history[k][i] = now}) < MaxUses
          /\ RecordToolUsage(k[1], k[2])

SpecLearn == InitLearn /\ [][NextLearn]_vars

-----------------------------------------------------------------------------
(* Properties of execute_tool_with_retry and execute_multiple_tools *)

\* the attempts of a call that have failed so far: every request sent but
\* the one in flight or the one that returned the result
FailedAttempts(c) ==
    IF c.pc = "inflight" \/ (c.pc = "returned" /\ c.requests > 0
                             /\ c.result[1].success)
    THEN c.requests - 1
    ELSE c.requests

\* max_retries was given as an integer N >= 0
HasRetryBound(c) ==
    c.pc # "idle" /\ c.max_retries # None /\ c.max_retries[1] >= 0

\* the remote discovery and execute calls in flight
InFlight ==
    Cardinality({i \in CallIds : calls[i].pc = "inflight"})
        + Cardinality({s \in Servers : disc[s] = "inflight"})

\* C1: a call execute_tool_with_retry(..., max_retries=N) with N >= 0 never
\* sends more than N + 1 remote execute requests.
C1_AtMostNPlusOneAttempts ==
    \A i \in CallIds :
        HasRetryBound(calls[i])
            => calls[i].requests <= calls[i].max_retries[1] + 1

\* C2: when all N + 1 attempts of a call with max_retries=N have failed, the
\* call has returned a result with success false whose error text names the
\* last error and the attempt count N + 1.
C2_ExhaustionReturnsFailure ==
    \A i \in CallIds :
        LET c == calls[i]
        IN  (HasRetryBound(c) /\ FailedAttempts(c) >= c.max_retries[1] + 1)
                => /\ c.pc = "returned"
                   /\ c.result[1].success = FALSE
                   /\ c.result[1].error =
                         Some(<<"Failed after", c.max_retries[1] + 1,
                                c.last_error>>)

\* C3: once a call has returned a successful result for a request, a second
\* call with the same request that starts less than cache_ttl after that
\* result's timestamp returns the same result without a remote request.
C3_SecondCallServedFromCache ==
    [][\A i, j \in DirectSlots :
          ( /\ i # j
            /\ calls[j].pc = "returned"
            /\ calls[j].result[1].success
            /\ calls[j].result[1].result = "result_body"
            /\ calls[i].pc = "start"
            /\ calls'[i].pc # "start"
            /\ RequestOf(calls[i]) = RequestOf(calls[j])
            /\ now - calls[j].result[1].timestamp < CacheTTL )
          => /\ calls'[i].pc = "returned"
             /\ calls'[i].result = calls[j].result
             /\ calls'[i].requests = 0]_vars

\* C4: in every reachable state at most parallel_limit remote discovery and
\* execute calls are in flight.
C4_InFlightWithinLimit == InFlight <= ParallelLimit

\* C5: execute_multiple_tools returns one result per request, and the result
\* at index i carries the endpoint, tool and parameters of request i.
C5_ResultsInRequestOrder ==
    batch.pc = "returned"
        => /\ Len(batch.results) = Len(batch.requests)
           /\ \A i \in 1 .. Len(batch.requests) :
                 /\ batch.results[i].server_url = batch.requests[i][1]
                 /\ batch.results[i].tool_name = batch.requests[i][2]
                 /\ batch.results[i].parameters = batch.requests[i][3]

\* a batch of two different requests has returned, the first entry a
\* failure and the second a success
C5_Witness ==
    /\ batch.pc = "returned"
    /\ Len(batch.requests) = 2
    /\ batch.requests[1] # batch.requests[2]
    /\ ~batch.results[1].success
    /\ batch.results[2].success

\* C6: execute_multiple_tools does not raise; when it returns every task has
\* finished, a task that raised has a failure entry (success false, an error
\* text) for its own request at its own index, and the entry of every other
\* task is the result that task returned.
C6_FailureIsolated ==
    /\ batch.pc # "raised"
    /\ batch.pc = "returned"
          => \A i \in 1 .. Len(batch.requests) :
                /\ Finished(calls[i])
                /\ IF calls[i].pc = "returned"
                   THEN batch.results[i] = calls[i].result[1]
                   ELSE /\ batch.results[i].success = FALSE
                        /\ batch.results[i].error # None
                        /\ batch.results[i].result = None
                        /\ <<batch.results[i].server_url,
                             batch.results[i].tool_name,
                             batch.results[i].parameters>> = batch.requests[i]

\* a batch has returned in which the first task raised and the second
\* returned a successful result, which is the second entry
C6_Witness ==
    /\ batch.pc = "returned"
    /\ Len(batch.requests) = 2
    /\ calls[1].pc = "raised"
    /\ batch.results[1].error = Some(<<"Execution failed", "TypeError">>)
    /\ calls[2].pc = "returned"
    /\ calls[2].result[1].success
    /\ batch.results[2] = calls[2].result[1]

\* C7: execute_tool_with_retry never raises, whether max_retries is omitted
\* or given as an integer N >= 0.
C7_NeverRaises ==
    \A i \in CallIds :
        (calls[i].max_retries = None \/ HasRetryBound(calls[i]))
            => calls[i].pc # "raised"

\* C8: when the parameters do not satisfy the tool's cached schema, the call
\* returns at once a failed result and sends no remote execute request.
C8_InvalidParametersNotSent ==
    [][\A i \in CallIds :
          LET key == ToolKey(calls[i].server_url, calls[i].tool_name)
          IN  ( /\ calls[i].pc = "start"
                /\ calls'[i].pc # "start"
                /\ key \in DOMAIN schema_cache
                /\ ~Satisfies(calls[i].parameters, schema_cache[key]) )
              => /\ calls'[i].pc = "returned"
                 /\ calls'[i].result[1].success = FALSE
                 /\ calls'[i].result[1].error # None
                 /\ calls'[i].requests = 0]_vars

\* C9: a 2xx response whose body carries an "error" field is a transient
\* failure: no call returns a successful result for it.
C9_SoftErrorIsNotSuccess ==
    \A i \in CallIds :
        (calls[i].pc = "returned" /\ calls[i].result[1].success)
            => calls[i].result[1].result # "error_body"

\* the step of call i is the return of a successful result
ReturnsSuccess(i) ==
    /\ calls[i].pc = "inflight"
    /\ calls'[i].pc = "returned"
    /\ calls'[i].result[1].success

\* C10: with max_retries = 3, a failure of the first or of the second
\* attempt is followed by a wait and the next attempt, with the tool's usage
\* statistics untouched; when the third attempt succeeds the call returns
\* success after exactly 3 remote requests, and the usage_count of the tool
\* (when it is in the catalog) grows by 1 in that step, no other entry
\* changing.
C10_ThirdAttemptSucceeds ==
    [][\A i \in DirectSlots :
          LET c == calls[i]
              key == ToolKey(c.server_url, c.tool_name)
          IN  (c.max_retries = Some(3) /\ calls'[i] # c)
              => /\ (c.pc = "inflight" /\ c.requests <= 2 /\ ~ReturnsSuccess(i))
                      => /\ calls'[i].pc = "sleeping"
                         /\ calls'[i].requests = c.requests
                         /\ tool_cache' = tool_cache
                 /\ c.pc = "sleeping"
                      => /\ calls'[i].pc = "inflight"
                         /\ calls'[i].requests = c.requests + 1
                         /\ tool_cache' = tool_cache
                 /\ (c.requests = 3 /\ ReturnsSuccess(i))
                      => /\ calls'[i].requests = 3
                         /\ DOMAIN tool_cache' = DOMAIN tool_cache
                         /\ \A k \in DOMAIN tool_cache :
                               IF k = key
                               THEN tool_cache'[k].usage_count =
                                        tool_cache[k].usage_count + 1
                               ELSE tool_cache'[k] = tool_cache[k]]_vars

\* a call with max_retries = 3 has returned success on its third request,
\* and the tool's entry in the catalog counts that one use
C10_Witness ==
    LET c == calls[CallerA]
        key == ToolKey(c.server_url, c.tool_name)
    IN  /\ c.pc = "returned"
        /\ c.max_retries = Some(3)
        /\ c.requests = 3
        /\ c.result[1].success
        /\ key \in DOMAIN tool_cache
        /\ tool_cache[key].usage_count = 1
        /\ tool_cache[key].last_used # None

-----------------------------------------------------------------------------
(* Properties of discover_all_tools and of the health checks *)

\* the servers marked healthy in a health map
MarkedHealthy(health) == {s \in DOMAIN health : health[s].is_healthy}

\* the step is a call of discover_all_tools
IsSweepCall == sweep.pc \in {"idle", "returned"} /\ sweep' # sweep

\* the step is the return of check_all_servers_health to discover_all_tools
IsHealthReturn == sweep.pc = "health" /\ sweep'.pc # "health"

\* the step is the return of a full sweep
IsSweepReturn == sweep.pc = "gather" /\ sweep'.pc # "gather"

\* the tools of the catalog grouped by endpoint
CatalogByEndpoint(cache) ==
    [s \in {k[1] : k \in DOMAIN cache} |->
        {cache[k] : k \in {j \in DOMAIN cache : j[1] = s}}]

\* the tools a returned map lists for each endpoint
ToolsListed(ret) == [s \in DOMAIN ret |-> Range(ret[s])]

\* C11: in every sweep, the endpoints the sweep sends a discovery request to
\* and the keys of the map it returns are endpoints that the health map
\* marked healthy when the sweep's check_all_servers_health returned; no
\* endpoint marked unhealthy then is contacted or listed.
C11_SweepOnlyHealthyEndpoints ==
    [][/\ (IsHealthReturn /\ sweep'.pc = "gather")
             => sweep'.healthy_servers = MarkedHealthy(server_health')
       /\ (sweep.pc = "gather" /\ sweep'.pc \in {"gather", "returned"})
             => sweep'.healthy_servers = sweep.healthy_servers
       /\ \A s \in Servers :
             (disc[s] = "idle" /\ disc'[s] # "idle")
                 => sweep.pc = "gather" /\ s \in sweep.healthy_servers
       /\ IsSweepReturn
             => DOMAIN sweep'.ret = sweep.healthy_servers]_vars

\* a sweep has returned the tools of the one endpoint marked healthy, the
\* other endpoint, marked unhealthy but reachable, not contacted or listed
C11_Witness ==
    /\ sweep.pc = "returned"
    /\ sweep.path = "sweep"
    /\ sweep.healthy_servers = {"s1"}
    /\ DOMAIN sweep.ret = {"s1"}
    /\ sweep.ret["s1"] # <<>>
    /\ ~server_health["s2"].is_healthy
    /\ up["s2"]
    /\ ToolKey("s2", "calc") \notin DOMAIN tool_cache

\* C12: a call of discover_all_tools with force_refresh false and
\* now - last_discovery < cache_ttl returns at once the catalog grouped by
\* endpoint, with no health check and no discovery request; a call with
\* force_refresh true starts a health check, and returns only after the
\* health check of every endpoint, from the sweep or from the branch
\* without healthy endpoints.
C12_CacheHitOrForcedSweep ==
    [][/\ (IsSweepCall /\ ~sweep'.force_refresh
             /\ now - last_discovery < CacheTTL)
             => /\ sweep'.pc = "returned"
                /\ sweep'.path = "cache"
                /\ ToolsListed(sweep'.ret) = CatalogByEndpoint(tool_cache)
                /\ sweep'.checks = <<>>
                /\ server_health' = server_health
                /\ disc' = disc
                /\ semaphore' = semaphore
                /\ tool_cache' = tool_cache
       /\ (IsSweepCall /\ sweep'.force_refresh)
             => /\ sweep'.pc = "health"
                /\ DOMAIN sweep'.checks = Servers
       /\ (sweep.pc # "returned" /\ sweep'.pc = "returned"
             /\ sweep'.force_refresh)
             => /\ sweep'.path \in {"sweep", "unhealthy"}
                /\ \A s \in Servers : sweep'.checks[s] # None]_vars

\* a call that was not forced has returned the catalog, which is not
\* empty, from the cache
C12_Witness ==
    /\ sweep.pc = "returned"
    /\ sweep.path = "cache"
    /\ ~sweep.force_refresh
    /\ DOMAIN sweep.ret # {}
    /\ sweep.current_time - last_discovery < CacheTTL
    /\ sweep.current_time > last_discovery

\* C13: a call of discover_all_tools made while all configured endpoints
\* are marked unhealthy returns an empty map, also when earlier sweeps have
\* filled the catalog, and select_tools then returns an empty list; neither
\* raises.
C13_AllUnhealthyGivesEmpty ==
    [][/\ (IsSweepCall /\ MarkedHealthy(server_health) = {}
             /\ sweep'.pc = "returned")
             => /\ DOMAIN sweep'.ret = {}
                /\ sweep'.owner = "select_tools"
                      => select'.pc = "returned" /\ select'.matches = <<>>
       /\ (IsHealthReturn /\ MarkedHealthy(server_health') = {})
             => /\ sweep'.pc = "returned"
                /\ DOMAIN sweep'.ret = {}
                /\ sweep'.owner = "select_tools"
                      => select'.pc = "returned" /\ select'.matches = <<>>]_vars

\* C13 as amended: when the health check of a call of discover_all_tools
\* (a call that is forced, or made cache_ttl or more after the last full
\* sweep) finds all configured endpoints marked unhealthy, the call returns
\* an empty map without a discovery request, also when earlier sweeps have
\* filled the catalog, and the select_tools that made the call returns an
\* empty list.
C13_UnhealthyAtCheckGivesEmpty ==
    [][(IsHealthReturn /\ MarkedHealthy(server_health') = {})
          => /\ sweep'.pc = "returned"
             /\ sweep'.path = "unhealthy"
             /\ DOMAIN sweep'.ret = {}
             /\ disc' = disc
             /\ sweep'.owner = "select_tools"
                   => select'.pc = "returned" /\ select'.matches = <<>>]_vars

\* select_tools has returned an empty list from the branch without healthy
\* endpoints, the catalog filled by an earlier sweep
C13_Witness ==
    /\ sweep.pc = "returned"
    /\ sweep.path = "unhealthy"
    /\ sweep.owner = "select_tools"
    /\ DOMAIN sweep.ret = {}
    /\ DOMAIN tool_cache # {}
    /\ select.pc = "returned"
    /\ select.matches = <<>>

\* C14: when the sweep returns, every discovery task has finished; the map
\* has a key for every healthy endpoint, with an empty list for an endpoint
\* whose discovery failed and the tools returned for every other endpoint;
\* discover_all_tools does not raise.
C14_FailedEndpointIsolated ==
    [][IsSweepReturn
          => /\ sweep'.pc = "returned"
             /\ DOMAIN sweep'.ret = sweep.healthy_servers
             /\ \A s \in sweep.healthy_servers :
                   /\ sweep.results[s] # None
                   /\ IF sweep.results[s][1].ok
                      THEN /\ [i \in DOMAIN sweep'.ret[s] |->
                                    sweep'.ret[s][i].name] =
                                 sweep.results[s][1].names
                           /\ \A i \in DOMAIN sweep'.ret[s] :
                                 sweep'.ret[s][i].server_url = s
                      ELSE sweep'.ret[s] = <<>>]_vars

\* a sweep has returned an empty list for the endpoint whose discovery
\* failed and the tool of the other endpoint
C14_Witness ==
    /\ sweep.pc = "returned"
    /\ sweep.path = "sweep"
    /\ sweep.healthy_servers = Servers
    /\ ~sweep.results["s1"][1].ok
    /\ sweep.ret["s1"] = <<>>
    /\ sweep.results["s2"][1].ok
    /\ sweep.ret["s2"] # <<>>

C16_LastDiscoveryOnlyAfterSweep ==
    [][/\ last_discovery' # last_discovery
             => IsSweepReturn /\ sweep'.path = "sweep"
       /\ (sweep'.pc = "returned" /\ sweep'.path \in {"cache", "unhealthy"})
             => last_discovery' = last_discovery]_vars

\* after a full sweep, a later call has returned because no endpoint is
\* healthy, and last_discovery is still the time of the full sweep
C16_Witness ==
    /\ sweep.pc = "returned"
    /\ sweep.path = "unhealthy"
    /\ last_discovery # EpochTime
    /\ last_discovery < sweep.current_time

\* the step is a check_server_health of server s: a task of
\* check_all_servers_health, or a call by the application
IsHealthCheck(s) ==
    \/ sweep.pc = "health" /\ sweep.checks[s] = None /\ sweep'.checks[s] # None
    \/ hresult' # hresult /\ hresult'[1].url = s

\* C17: a check_server_health of a configured endpoint that is unreachable
\* leaves the endpoint marked unhealthy, its error_count one higher and
\* its last_error set.
C17_FailedProbeMarksUnhealthy ==
    [][\A s \in Servers :
          (IsHealthCheck(s) /\ ~up[s])
              => /\ ~server_health'[s].is_healthy
                 /\ server_health'[s].error_count =
                       server_health[s].error_count + 1
                 /\ server_health'[s].last_error # None]_vars

\* C18: a check_server_health of a configured endpoint that is reachable
\* returns the record of that endpoint's URL, with is_healthy true and the
\* advertised tool names as capabilities.
C18_GoodProbeRecordsCapabilities ==
    [][\A s \in Servers :
          (IsHealthCheck(s) /\ up[s])
              => /\ server_health'[s].url = s
                 /\ server_health'[s].is_healthy
                 /\ server_health'[s].capabilities
                       \in {Some(names) : names \in SUBSET ToolNames}]_vars

\* C19: check_all_servers_health runs one check per configured endpoint and
\* returns when all have finished; the health map it returns has an entry
\* for every configured endpoint, the entry of each endpoint being the
\* result of its own check.
C19_HealthMapComplete ==
    [][/\ sweep'.pc = "health"
             => DOMAIN sweep'.checks = Servers
       /\ IsHealthReturn
             => /\ \A s \in Servers : sweep.checks[s] # None
                /\ DOMAIN server_health' = Servers
                /\ \A s \in Servers :
                      /\ sweep.checks[s][1].entry = s
                      /\ server_health'[s] = server_health[s]
                      /\ server_health'[s].url = s]_vars

\* the health checks of a sweep have returned the map with both endpoints,
\* one marked unhealthy and unreachable, the other healthy
C19_Witness ==
    /\ sweep.pc = "gather"
    /\ sweep.healthy_servers = {"s2"}
    /\ DOMAIN server_health = Servers
    /\ ~server_health["s1"].is_healthy
    /\ ~up["s1"]
    /\ server_health["s2"].is_healthy

-----------------------------------------------------------------------------
(* Properties of the tool selector *)

\* C20: the confidence of every ToolMatch that select_tools returns is at
\* least 0 and at most 1.
C20_ConfidenceInUnitInterval ==
    \A i \in 1 .. Len(select.matches) :
        /\ RLeq(RZero, select.matches[i].confidence)
        /\ RLeq(select.matches[i].confidence, ROne)

\* select_tools has returned a match with a matched intent, an aligned
\* entity and a usage preference, its confidence above 0.6
C20_Witness ==
    /\ select.pc = "returned"
    /\ \E i \in 1 .. Len(select.matches) :
          /\ select.matches[i].intent # None
          /\ AlignedEntities(select.matches[i].tool,
                             select.matches[i].entities) # <<>>
          /\ \E j \in 1 .. Len(select.matches[i].reasons) :
                select.matches[i].reasons[j][1] = "Usage preference"
          /\ RLt(R(6, 10), select.matches[i].confidence)

\* the step in which select_tools returns
IsSelectReturn ==
    /\ select'.pc = "returned"
    /\ select' # select \/ context_memory' # context_memory

\* the confidence select_tools computes for a tool in the step that takes
\* the selector from the current state, for the call sel
ConfidenceOf(tool, sel) ==
    ToolMatch(tool, sel.user_message, sel.context,
              extract_entities(sel.user_message),
              detect_intent(sel.user_message,
                            extract_entities(sel.user_message)),
              usage_history, context_memory, now).confidence

\* the tools that qualify for the call sel, of the catalog that
\* discover_all_tools returns to it in the step
Qualifying(sel) ==
    {tool \in UNION {Range(sweep'.ret[s]) : s \in DOMAIN sweep'.ret} :
        RLt(R(1, 10), ConfidenceOf(tool, sel))}

\* C21: the list select_tools returns holds only tools with a confidence
\* above 0.1, each at most once, is sorted by non-increasing confidence,
\* has at most max_tools elements, and holds the max_tools qualifying tools
\* of the catalog with the highest confidence (all of them when fewer
\* qualify).
C21_TopMatchesReturned ==
    [][IsSelectReturn =>
          LET sel == select'
              m == sel.matches
          IN  /\ \A i \in DOMAIN m :
                    /\ m[i].tool \in Qualifying(sel)
                    /\ m[i].confidence = ConfidenceOf(m[i].tool, sel)
              /\ \A i, j \in DOMAIN m :
                    /\ i < j => RLeq(m[j].confidence, m[i].confidence)
                    /\ m[i].tool = m[j].tool => i = j
              /\ Len(m) <= sel.max_tools
              /\ \/ Len(m) = sel.max_tools
                 \/ Len(m) = Cardinality(Qualifying(sel))
              /\ \A tool \in Qualifying(sel) \ {m[i].tool : i \in DOMAIN m} :
                    \A i \in DOMAIN m :
                        RLeq(ConfidenceOf(tool, sel), m[i].confidence)]_vars

\* C30: for the message "Calculate 2 + 2 * 3", a catalog with the tool
\* calculator (parameter expression), no usage history and no context
\* memory, select_tools returns calculator first, with a confidence above
\* 0.5, and the math_expression entity it extracted is "2 + 2 * 3".
C30_CalculateScenario ==
    [][(/\ IsSelectReturn
        /\ select'.user_message = {"Calculate", "2 + 2 * 3"}
        /\ select'.max_tools = 3
        /\ ToolKey("s1", "calculator") \in DOMAIN tool_cache
        /\ \A k \in DOMAIN usage_history : usage_history[k] = <<>>
        /\ context_memory = <<>>)
          => /\ select'.matches # <<>>
             /\ select'.matches[1].tool.name = "calculator"
             /\ RLt(R(1, 2), select'.matches[1].confidence)
             /\ \E i \in DOMAIN select'.matches[1].entities :
                   /\ select'.matches[1].entities[i][1] = "math_expression"
                   /\ select'.matches[1].entities[i][2] = <<"2 + 2 * 3">>]_vars

\* C22: context_memory never holds more than 100 entries; a select_tools
\* call with at least one qualifying match appends exactly one entry, which
\* names a tool of the highest confidence of that call, and drops the oldest
\* entry when the memory was full; a call with no qualifying match leaves
\* the memory unchanged.
C22_ContextMemoryRolls ==
    [][/\ Len(context_memory') <= 100
       /\ IsSelectReturn =>
             LET old == context_memory
                 new == context_memory'
                 kept == IF Len(old) < 100 THEN old ELSE Tail(old)
             IN  IF Qualifying(select') = {}
                 THEN new = old
                 ELSE /\ Len(new) = Len(kept) + 1
                      /\ SubSeq(new, 1, Len(kept)) = kept
                      /\ new[Len(new)].text = select'.user_message
                      /\ \E tool \in Qualifying(select') :
                            /\ new[Len(new)].top_tool = tool.name
                            /\ \A other \in Qualifying(select') :
                                  RLeq(ConfidenceOf(other, select'),
                                       ConfidenceOf(tool, select'))
       /\ ~IsSelectReturn => context_memory' = context_memory]_vars

\* a call has appended its entry to a memory of 100 entries: the oldest
\* entry is gone and the memory still holds 100
C22_Witness ==
    /\ select.pc = "returned"
    /\ select.matches # <<>>
    /\ Len(context_memory) = 100
    /\ context_memory[1].top_tool = "calculator"
    /\ context_memory[100].timestamp = now
    /\ context_memory[100].top_tool = select.matches[1].tool.name

\* C23: no usage log holds more than 50 timestamps; record_tool_usage
\* appends the time of the call to the log of its key and drops the oldest
\* timestamp when the log was full, and leaves the logs of the other keys
\* unchanged.
C23_UsageLogRolls ==
    [][/\ \A k \in DOMAIN usage_history' : Len(usage_history'[k]) <= 50
       /\ usage_history' # usage_history =>
             \E key \in DOMAIN usage_history' :
                LET old == IF key \in DOMAIN usage_history
                           THEN usage_history[key] ELSE <<>>
                    kept == IF Len(old) < 50 THEN old ELSE Tail(old)
                IN  /\ usage_history'[key] = Append(kept, now)
                    /\ \A k \in DOMAIN usage_history' \ {key} :
                          /\ k \in DOMAIN usage_history
                          /\ usage_history'[k] = usage_history[k]]_vars

\* a use has been recorded in a log of 50 timestamps: the oldest one is gone,
\* the log still holds 50 and another key's log is as it was
C23_Witness ==
    \E key, other \in DOMAIN usage_history :
        /\ key # other
        /\ Len(usage_history[key]) = 50
        /\ usage_history[key][50] = now
        /\ usage_history[key][49] < now
        /\ Len(usage_history[other]) = 50
        /\ usage_history[other][50] < now

\* C24: every tool descriptor that a cache hit of discover_all_tools
\* returns was received from its endpoint less than cache_ttl before the
\* call; execute_tool_with_retry returns no cached ExecutionResult that is
\* cache_ttl old or older (the model's execution_cache is never filled, as in
\* the code).
C24_NothingServedPastTTL ==
    [][/\ (IsSweepCall /\ sweep'.pc = "returned" /\ sweep'.path = "cache")
             => \A s \in DOMAIN sweep'.ret :
                   \A i \in DOMAIN sweep'.ret[s] :
                      LET k == ToolKey(s, sweep'.ret[s][i].name)
                      IN  /\ k \in DOMAIN fetched_at.at
                          /\ now - fetched_at.at[k] < CacheTTL
       /\ execution_cache' = None]_vars

\* C25: in every map that discover_all_tools returns, from a sweep or from
\* a cache hit, no two descriptors have the same endpoint and the same name.
C25_KeysUniqueInReturnedMap ==
    [][(sweep'.pc = "returned" /\ sweep' # sweep)
          => \A p, q \in UNION {{s} \X DOMAIN sweep'.ret[s] :
                                   s \in DOMAIN sweep'.ret} :
                LET a == sweep'.ret[p[1]][p[2]]
                    b == sweep'.ret[q[1]][q[2]]
                IN  (a.server_url = b.server_url /\ a.name = b.name)
                        => p = q]_vars

C27_HealthOutsideSemaphore ==
    [][/\ sweep.pc = "health"
             => /\ \A s \in Servers :
                      sweep.checks[s] = None => ENABLED HealthTask(s)
                /\ (\A s \in Servers : sweep.checks[s] # None)
                      => ENABLED HealthReturn
       /\ (sweep.pc = "health" /\ sweep' # sweep)
             => /\ semaphore' = semaphore
                /\ disc' = disc]_vars

\* the sweep has passed its health checks and stands in its discovery phase
\* while a batch of executions and a discovery of the application hold every
\* permit
C27_Witness ==
    /\ sweep.pc = "gather"
    /\ sweep.started = {}
    /\ semaphore = 0
    /\ batch.pc = "gather"
    /\ \E s \in Servers : disc[s] = "inflight"

-----------------------------------------------------------------------------
(* Properties of _categorize_tool and _extract_tags *)

\* the keywords of the categories, in the order _categorize_tool tries them
CategoryOrder ==
    <<"file_operations", "web_operations", "system_operations", "computation">>
CategoryKeywords ==
    <<{"file", "read", "write", "directory", "folder"},
      {"web", "search", "url", "http", "internet"},
      {"system", "process", "cpu", "memory", "disk"},
      {"calculate", "math", "compute", "number"}>>

\* the keywords of a set that occur in a name or in a description
Present(keywords, name, description) ==
    keywords \cap (PhrasesIn(name) \cup Phrases(description))

\* the places in CategoryOrder of the categories with a keyword present
Hits(name, description) ==
    {i \in DOMAIN CategoryOrder :
        Present(CategoryKeywords[i], name, description) # {}}

\* C28: the category _categorize_tool returns for a name and a description
\* is the earliest of file_operations, web_operations, system_operations,
\* computation that has a keyword in the name or the description, and
\* general when none has; it depends on the name and the description only.
C28_CategoryIsFirstMatch ==
    (applied # None /\ applied[1][1] = "_categorize_tool")
        => LET name == applied[1][2]
               description == applied[1][3]
               category == applied[1][4]
               hits == Hits(name, description)
           IN  IF hits = {}
               THEN category = "general"
               ELSE \E i \in hits :
                       /\ category = CategoryOrder[i]
                       /\ \A j \in hits : i <= j

\* _categorize_tool has returned file_operations for a tool with keywords of
\* all four categories
C28_Witness ==
    /\ applied # None
    /\ applied[1][1] = "_categorize_tool"
    /\ Hits(applied[1][2], applied[1][3]) = DOMAIN CategoryOrder
    /\ applied[1][4] = "file_operations"

\* C29: the tags _extract_tags returns hold network when network, monitor,
\* system or realtime occurs in the name or the description, and data when
\* data, storage or system occurs there.
C29_TriggersForceTags ==
    (applied # None /\ applied[1][1] = "_extract_tags")
        => LET name == applied[1][2]
               description == applied[1][3]
               tags == applied[1][4]
           IN  /\ Present({"network", "monitor", "system", "realtime"},
                          name, description) # {}
                     => "network" \in tags
               /\ Present({"data", "storage", "system"},
                          name, description) # {}
                     => "data" \in tags

\* _extract_tags has returned network and data for a tool in whose name and
\* description neither word occurs
C29_Witness ==
    /\ applied # None
    /\ applied[1][1] = "_extract_tags"
    /\ Present({"network", "data"}, applied[1][2], applied[1][3]) = {}
    /\ {"network", "data"} \subseteq applied[1][4]

-----------------------------------------------------------------------------
(* Further properties of execute_tool_with_retry *)

\* C31: the wait a call starts after its k-th failed attempt, counted from
\* k = 0, is 2^k seconds: 1, 2, 4, ... within one call.
C31_BackoffDoubles ==
    [][\A i \in CallIds :
          (calls[i].pc = "inflight" /\ calls'[i].pc = "sleeping")
              => calls'[i].wait = 2 ^ (calls[i].requests - 1)]_vars

-----------------------------------------------------------------------------
(* Further properties of the selector *)

\* the words of a context argument
ContextWords(context) == UNION {Words(context[i]) : i \in DOMAIN context}

\* C32: when one of the last ten entries of context_memory names a tool as
\* the top match of an earlier select_tools call and the text of that entry
\* shares a word with the context of the current call, the context part of
\* calculate_usage_preference is above 0 for that tool in the current call.
C32_PastContextCounts ==
    [][IsSelectReturn =>
          \A k \in DOMAIN tool_cache :
             LET recent == Last(context_memory, 10)
             IN  (/\ select'.context # None
                  /\ \E i \in DOMAIN recent :
                        /\ recent[i].top_tool = tool_cache[k].name
                        /\ Words(recent[i].text)
                              \cap ContextWords(select'.context) # {})
                     => RLt(RZero,
                            ContextPreference(tool_cache[k], select'.context,
                                              context_memory))]_vars

\* the step is the successful return of the call i
IsSuccess(i) ==
    /\ calls[i].pc = "inflight"
    /\ calls'[i].pc = "returned"
    /\ calls'[i].result[1].success

\* C33: a successful execution of a tool of the catalog adds 1 to the
\* tool's usage_count, sets last_used to the time of the return and makes
\* avg_response_time the mean of the old mean, weighted by the old count,
\* and the time the execution took; an entry never used has the mean 0, so
\* avg_response_time is the mean of the times of the usage_count executions
\* counted; the statistics of the other tools do not change.
C33_SuccessUpdatesUsage ==
    [][/\ \A i \in CallIds :
             (IsSuccess(i)
              /\ ToolKey(calls[i].server_url, calls[i].tool_name)
                    \in DOMAIN tool_cache)
                => LET key == ToolKey(calls[i].server_url, calls[i].tool_name)
                       old == tool_cache[key]
                       new == tool_cache'[key]
                   IN  /\ new.usage_count = old.usage_count + 1
                       /\ new.last_used = Some(now)
                       /\ RMul(new.avg_response_time, RInt(new.usage_count))
                             = RAdd(RMul(old.avg_response_time,
                                         RInt(old.usage_count)),
                                    RInt(now - calls[i].start_time))
                       /\ DOMAIN tool_cache' = DOMAIN tool_cache
                       /\ \A k \in DOMAIN tool_cache \ {key} :
                             tool_cache'[k] = tool_cache[k]
       /\ \A k \in DOMAIN tool_cache' :
             tool_cache'[k].usage_count = 0
                => tool_cache'[k].avg_response_time = RZero]_vars

\* a tool has been used twice, by executions that took 0 and 1 ticks or 1
\* and 2 ticks, and its mean lies between
C33_Witness ==
    \E k \in DOMAIN tool_cache :
        /\ tool_cache[k].usage_count = 2
        /\ tool_cache[k].avg_response_time \in {R(1, 2), R(3, 2)}
        /\ \E j \in DOMAIN tool_cache : tool_cache[j].usage_count = 0


\* C34: every ToolMatch that select_tools returns carries at least one
\* reason.
C34_MatchesHaveReasons ==
    select.pc = "returned"
        => \A i \in DOMAIN select.matches :
              Len(select.matches[i].reasons) >= 1


(* Further properties of discovery *)
\* C35: last_discovery never decreases, however concurrent
\* discover_all_tools calls interleave.
C35_LastDiscoveryMonotone ==
    [][last_discovery' >= last_discovery]_vars


\* the tools a returned map lists for an endpoint: none for an endpoint
\* that is not a key of the map
ListedFor(ret, s) == IF s \in DOMAIN ret THEN Range(ret[s]) ELSE {}

\* C36: a call of discover_all_tools served from the cache right after a
\* full sweep has returned lists for every endpoint the tools that the sweep
\* listed for it, and no tools for an endpoint whose list in the sweep was
\* empty.
C36_CacheHitRepeatsLastSweep ==
    [][(/\ sweep.pc = "returned"
        /\ sweep.path = "sweep"
        /\ IsSweepCall
        /\ sweep'.pc = "returned"
        /\ sweep'.path = "cache")
          => \A s \in Servers :
                ListedFor(sweep'.ret, s) = ListedFor(sweep.ret, s)]_vars


(* Further properties of the semaphore *)
\* the permits held: one by each discover_tools_from_server that has sent
\* its request, one by an execute_multiple_tools that gathers its tasks
PermitsHeld ==
    Cardinality({s \in Servers : disc[s] = "inflight"})
        + (IF batch.pc = "gather" THEN 1 ELSE 0)

\* C37: the permits are conserved: the free permits and the permits held,
\* one by each discovery in flight and one by a batch in progress, add up to
\* parallel_limit, whatever has failed before; with no discovery and no batch
\* in progress, every permit is free.
C37_PermitsConserved ==
    /\ semaphore \in 0 .. ParallelLimit
    /\ semaphore + PermitsHeld = ParallelLimit
    /\ ((\A s \in Servers : disc[s] = "idle")
        /\ batch.pc \in {"idle", "returned"})
          => semaphore = ParallelLimit

\* after a batch whose task failed and a sweep in which a discovery failed,
\* with nothing in progress, every permit is free
C37_Witness ==
    /\ batch.pc = "returned"
    /\ ~batch.results[1].success
    /\ sweep.pc = "returned"
    /\ sweep.path = "sweep"
    /\ \E s \in sweep.healthy_servers : ~sweep.results[s][1].ok
    /\ \A s \in Servers : disc[s] = "idle"
    /\ semaphore = ParallelLimit


(* Further properties of the catalog *)
\* C38: a discover_tools_from_server call that fails adds or replaces no
\* entry of the catalog.
C38_FailedDiscoveryLeavesCatalog ==
    [][\A s \in Servers :
          (disc[s] = "inflight" /\ disc'[s] = "idle"
           /\ sweep'.pc = "gather" /\ sweep.results[s] = None
           /\ ~sweep'.results[s][1].ok)
              => tool_cache' = tool_cache]_vars


\* C39: a step of an execute_tool_with_retry call that is not its successful
\* return (the call, the sending of a request, a failed attempt, the
\* end of a wait, a failed return) leaves the usage statistics of every tool,
\* the schema cache and the execution cache unchanged.
C39_FailureLeavesCaches ==
    [][(calls' # calls /\ ~\E i \in CallIds : IsSuccess(i))
          => /\ tool_cache' = tool_cache
             /\ schema_cache' = schema_cache
             /\ execution_cache' = execution_cache]_vars

\* a call has failed twice and waits before its next attempt, and the tool
\* it asked for has not been counted as used
C39_Witness ==
    \E i \in CallIds :
        /\ calls[i].pc = "sleeping"
        /\ FailedAttempts(calls[i]) >= 2
        /\ ToolKey(calls[i].server_url, calls[i].tool_name) \in DOMAIN tool_cache
        /\ tool_cache[ToolKey(calls[i].server_url, calls[i].tool_name)].usage_count = 0


\* C40: no step removes a key of the catalog, and every tool of the catalog,
\* whatever has become of its endpoint, is counted by get_server_statistics
\* and returned by get_tools_by_category and get_tools_by_tags for its
\* category and its tags and by a discover_all_tools call served from the
\* cache.
C40_CatalogOnlyGrows ==
    [][/\ DOMAIN tool_cache \subseteq DOMAIN tool_cache'
       /\ (applied' # applied /\ applied' # None)
             => LET a == applied'[1]
                IN  /\ a[1] = "get_tools_by_category"
                          => \A k \in DOMAIN tool_cache :
                                tool_cache[k].category = a[2]
                                    => tool_cache[k] \in a[3]
                    /\ a[1] = "get_tools_by_tags"
                          => \A k \in DOMAIN tool_cache :
                                tool_cache[k].tags \cap a[2] # {}
                                    => tool_cache[k] \in a[3]
                    /\ a[1] = "get_server_statistics"
                          => /\ a[2].total_count =
                                   Cardinality(DOMAIN tool_cache)
                             /\ \A k \in DOMAIN tool_cache :
                                   /\ k[1] \in DOMAIN a[2].by_server
                                   /\ a[2].by_server[k[1]] =
                                         Cardinality({j \in DOMAIN tool_cache :
                                                         j[1] = k[1]})
       /\ (IsSweepCall /\ sweep'.pc = "returned" /\ sweep'.path = "cache")
             => \A k \in DOMAIN tool_cache :
                   tool_cache[k] \in ListedFor(sweep'.ret, k[1])]_vars

\* a full sweep has returned without an endpoint that is marked unhealthy,
\* and get_server_statistics has counted the tool the catalog holds of it
C40_Witness ==
    /\ sweep.pc = "returned"
    /\ sweep.path = "sweep"
    /\ \E k \in DOMAIN tool_cache :
          /\ ~server_health[k[1]].is_healthy
          /\ k[1] \notin DOMAIN sweep.ret
          /\ applied # None
          /\ applied[1][1] = "get_server_statistics"
          /\ applied[1][2].total_count = Cardinality(DOMAIN tool_cache)
          /\ k[1] \in DOMAIN applied[1][2].by_server
          /\ ~applied[1][2].servers[k[1]].healthy

=============================================================================
